---- MODULE Spec2Model ----
(***************************************************************************)
(* Saga executor of compozy/releasepr: SagaExecutor (package orchestrator) *)
(* driving domain.RollbackState, with the StateRepository seen through its *)
(* interface (Save keeps the last snapshot it accepted).                   *)
(***************************************************************************)
EXTENDS Integers, Sequences, FiniteSets, TLC

(* ------------------------------ bounds --------------------------------- *)

\* longest list of steps a caller registers
MaxSteps == 3

\* public calls (Execute, Rollback) made on one executor
MaxCalls == 1

\* times a persisted session is reloaded for an out-of-process rollback
MaxLoads == 1

\* longest sequence of records built by direct calls on a RollbackState
MaxRecords == 3

\* longest sequence of records in a state handed to the repository directly
MaxStoredRecords == 1

(* ------------------------- program constants --------------------------- *)

\* constants.go: DefaultRetryCount, production default
DefaultRetryCount == 3

\* state_repository.go: StateSchemaVersion
StateSchemaVersion == "1.0.0"

\* domain.OperationType values, in declaration order
OperationTypeNames ==
  << "check_changes", "calculate_version", "create_branch", "checkout_branch",
     "update_packages", "generate_changelog", "commit_changes", "push_branch",
     "create_pr" >>

\* the operation types of the steps buildAndExecuteWorkflow registers, in the
\* order it registers them
WorkflowStepTypes ==
  << "check_changes", "calculate_version", "create_branch", "update_packages",
     "generate_changelog", "commit_changes", "push_branch", "create_pr" >>

\* the names of the steps buildAndExecuteWorkflow registers, in the same order
WorkflowStepNames ==
  << "Check Changes", "Calculate Version", "Create Release Branch",
     "Update Package Versions", "Generate Changelog", "Commit Changes",
     "Push Branch", "Create Pull Request" >>

(* ------------------------------ errors --------------------------------- *)

\* a nil error
NoErr == [kind |-> "nil"]

\* the error a step's execute function returns
ExecErr(name) == [kind |-> "execute failed", name |-> name]

\* the error a step's compensate function returns
CompErr(name) == [kind |-> "compensate failed", name |-> name]

\* ctx.Err() of the caller's cancelled context
CtxCanceled == [kind |-> "context canceled"]

\* ctx.Err() of the rollback context after RollbackTimeout
CtxDeadline == [kind |-> "context deadline exceeded"]

\* the error a failing StateRepository.Save returns
SaveErr == [kind |-> "save failed"]

\* fmt.Errorf("failed to save initial state: %w", err)
ErrInitialSave(err) == [kind |-> "failed to save initial state", cause |-> err]

\* fmt.Errorf("step '%s' failed: %w", step.Name, err)
ErrStepFailed(name, err) == [kind |-> "step failed", name |-> name, cause |-> err]

\* fmt.Errorf("step '%s' failed: %w, rollback also failed: %v", ...)
ErrStepAndRollbackFailed(name, err, rollbackErr) ==
  [kind |-> "step failed, rollback also failed", name |-> name,
   cause |-> err, rollback |-> rollbackErr]

\* fmt.Errorf("rollback canceled: %w", ctx.Err())
ErrRollbackCanceled(err) == [kind |-> "rollback canceled", cause |-> err]

\* fmt.Errorf("rollback failed: %w", err), the step's name left out
ErrRollbackFailedUnnamed(name, err) ==
  [kind |-> "rollback failed for", name |-> "", cause |-> err]

\* fmt.Errorf("rollback failed for %s: %w", step.Name, err)
ErrRollbackFailedFor(name, err) ==
  [kind |-> "rollback failed for", name |-> name, cause |-> err]

(* ------------------------- domain.RollbackState ------------------------ *)

\* a nil rollback-data map
NoData == [from |-> "none"]

\* the rollback data the execute function of the step called name returns
DataOf(name) == [from |-> name]

\* domain.NewRollbackState
NewRollbackState == [status |-> "pending", ops |-> << >>, error |-> NoErr]

\* RollbackState.AddOperation
AddOperation(st, opType) ==
  [st EXCEPT !.ops = Append(@, [type |-> opType, status |-> "pending",
                                 data |-> NoData, error |-> NoErr])]

\* position of the first record of the type in the status, 0 when none
FirstRecord(ops, opType, status) ==
  LET hits == { i \in 1..Len(ops) : ops[i].type = opType /\ ops[i].status = status }
  IN  IF hits = {} THEN 0 ELSE CHOOSE i \in hits : \A j \in hits : i <= j

\* RollbackState.MarkOperationStarted without the test of the record's status
MarkOperationStartedAnyStatus(st, opType) ==
  LET hits == { i \in 1..Len(st.ops) : st.ops[i].type = opType }
      i == IF hits = {} THEN 0 ELSE CHOOSE i \in hits : \A j \in hits : i <= j
  IN  IF i = 0 THEN st ELSE [st EXCEPT !.ops[i].status = "running"]

\* RollbackState.MarkOperationStarted
MarkOperationStarted(st, opType) ==
  LET i == FirstRecord(st.ops, opType, "pending")
  IN  IF i = 0 THEN st ELSE [st EXCEPT !.ops[i].status = "running"]

\* RollbackState.MarkOperationCompleted that stores the rollback data and
\* leaves the record running
MarkOperationCompletedStaysRunning(st, opType, rollbackData) ==
  LET i == FirstRecord(st.ops, opType, "running")
  IN  IF i = 0 THEN st ELSE [st EXCEPT !.ops[i].data = rollbackData]

\* RollbackState.MarkOperationCompleted that drops the rollback data
MarkOperationCompletedNoData(st, opType, rollbackData) ==
  LET i == FirstRecord(st.ops, opType, "running")
  IN  IF i = 0 THEN st ELSE [st EXCEPT !.ops[i].status = "completed"]

\* RollbackState.MarkOperationCompleted
MarkOperationCompleted(st, opType, rollbackData) ==
  LET i == FirstRecord(st.ops, opType, "running")
  IN  IF i = 0 THEN st
      ELSE [st EXCEPT !.ops[i].status = "completed", !.ops[i].data = rollbackData]

\* RollbackState.MarkOperationFailed that leaves the workflow status alone
MarkOperationFailedKeepsStatus(st, opType, err) ==
  LET i == FirstRecord(st.ops, opType, "running")
  IN  IF i = 0 THEN st
      ELSE [st EXCEPT !.ops[i].status = "failed", !.ops[i].error = err]

\* RollbackState.MarkOperationFailed
MarkOperationFailed(st, opType, err) ==
  LET i == FirstRecord(st.ops, opType, "running")
      marked == IF i = 0 THEN st
                ELSE [st EXCEPT !.ops[i].status = "failed", !.ops[i].error = err]
  IN  [marked EXCEPT !.status = "failed", !.error = err]

\* the records of ops from position i down to 1 that satisfy keep, each copy
\* tagged with the position it was copied from
RECURSIVE CopyDownFrom(_, _, _)
CopyDownFrom(ops, i, keepAll) ==
  IF i = 0 THEN << >>
  ELSE IF keepAll \/ ops[i].status = "completed"
       THEN << [pos |-> i, type |-> ops[i].type, status |-> ops[i].status,
                data |-> ops[i].data] >> \o CopyDownFrom(ops, i - 1, keepAll)
       ELSE CopyDownFrom(ops, i - 1, keepAll)

\* the completed records in sequence order (first completed first)
RECURSIVE CopyUpFrom(_, _)
CopyUpFrom(ops, i) ==
  IF i > Len(ops) THEN << >>
  ELSE IF ops[i].status = "completed"
       THEN << [pos |-> i, type |-> ops[i].type, status |-> ops[i].status,
                data |-> ops[i].data] >> \o CopyUpFrom(ops, i + 1)
       ELSE CopyUpFrom(ops, i + 1)

\* RollbackState.GetCompletedOperations without the reversal
GetCompletedOperationsForward(ops) == CopyUpFrom(ops, 1)

\* RollbackState.GetCompletedOperations without the status filter
GetCompletedOperationsAnyStatus(ops) == CopyDownFrom(ops, Len(ops), TRUE)

\* RollbackState.GetCompletedOperations
GetCompletedOperations(ops) == CopyDownFrom(ops, Len(ops), FALSE)

(* ----------------------------- SagaExecutor ---------------------------- *)

VARIABLES
  plan,            \* the steps the caller is going to register, in order
  enableRollback,  \* SagaExecutor.enableRollback
  origin,          \* "new" (NewSagaExecutor) or "loaded" (LoadExistingSaga)
  steps,           \* SagaExecutor.steps
  state,           \* SagaExecutor.state (domain.RollbackState)
  persisted,       \* what the StateRepository holds for the session
  pc,              \* position inside the public call in progress, or "idle"
  caller,          \* the public call in progress or last returned
  cur,             \* index of the step Execute is at
  attempt,         \* retries the retry strategy has handed out so far
  rbQueue,         \* completedOps still to visit in rollback
  rbStep,          \* index of the step whose compensation is being run
  ctxDone,         \* the caller's context is cancelled
  rbCtxDone,       \* the rollback context has passed RollbackTimeout
  stepErr,         \* err of the failing executeStep
  rbErr,           \* what rollback returned
  result,          \* what the last public call returned
  fresh,           \* the Execute call began on an untouched state
  calls,           \* public calls begun on this executor
  loads,           \* sessions reloaded so far
  execLog,         \* steps whose execute the current call invoked, in order
  execTries,       \* invocations of the execute function of step cur
  compTries,       \* invocations of the compensate function of step rbStep
  execFailed,      \* an execute invocation of the current call failed
  compLog,         \* compensations the current call invoked, in order
  compFailed,      \* a compensate invocation of the current call failed
  saveLog,         \* Save calls of the current call, in order
  saveFailed,      \* a Save call of the current call failed
  visitLog,        \* records rollback has taken from completedOps
  fs,              \* JSONStateRepository: the files of the state directory
  loaded,          \* what the last Load, LoadLatest or Exists returned
  storeLog,        \* what the Save calls so far wrote and how the calls ended
  proc,            \* the processes inside a call of the repository
  flock,           \* the lock file of the session and the locks held on it
  git,             \* the working copy, its remote and the git calls made
  wctx             \* workflowContext of the release workflow

vars ==
  << plan, enableRollback, origin, steps, state, persisted, pc, caller, cur,
     attempt, rbQueue, rbStep, ctxDone, rbCtxDone, stepErr, rbErr, result,
     fresh, calls, loads, execLog, execTries, compTries, execFailed, compLog, compFailed,
     saveLog, saveFailed, visitLog, fs, loaded, storeLog, proc, flock, git, wctx >>

logs ==
  << execLog, execTries, compTries, execFailed, compLog, compFailed, saveLog, saveFailed,
     visitLog >>

\* the state directory and the result of Load, which the executor reaches
\* only through the StateRepository interface, and the working copy and the
\* workflow context, which it reaches only through the functions of its steps
store == << fs, loaded, storeLog, proc, flock, git, wctx >>

\* a state directory with no file in it
EmptyDir == [name \in {} |-> << >>]

\* Load has not been called
NotLoaded == [called |-> FALSE]

\* no Save has been called: nothing written, no state saved last, no Save
\* that failed, no Delete, no warning on stderr from the last call
NoStoreLog ==
  [written |-> EmptyDir, last |-> << >>, failed |-> FALSE, deleted |-> FALSE,
   warned |-> FALSE]

\* no process is inside a call of the repository
NoProcs == << >>

\* no lock file yet: ino is the inode the name of the lock file leads to
NoLocks == [ino |-> 0]

\* the branch the run starts on and the release branch of the version
OriginalBranch == "main"

ReleaseBranch == "release/v1"

\* a working copy on its original branch, which the remote has too, and no
\* git call made
\* commit hashes, written as sequences: the commit the release branch starts
\* from and the release commit made on top of it
ParentCommit == << "a", "1" >>

ReleaseCommit == << "b", "2" >>

\* the name HEAD
HeadRef == << "HEAD" >>

NoGit ==
  [current |-> OriginalBranch, local |-> {OriginalBranch},
   remote |-> {OriginalBranch}, tip |-> ParentCommit, dirty |-> {},
   pr |-> "none", calls |-> << >>]

\* workflowContext{}: the zero values
NoWctx == [branchName |-> "", createdInSession |-> FALSE]

\* the step lists a caller registers: the first n steps of the release
\* workflow, each with a compensate function or with none
WorkflowPlans ==
  UNION { { [i \in 1..n |-> [type |-> WorkflowStepTypes[i], hasComp |-> c[i]]] :
            c \in [1..n -> BOOLEAN] } : n \in 0..MaxSteps }

\* NewSagaExecutor
NewSagaExecutor(rollback) ==
  /\ enableRollback = rollback
  /\ origin = "new"
  /\ steps = << >>
  /\ state = NewRollbackState
  /\ persisted = [saved |-> FALSE, state |-> NewRollbackState]
  /\ pc = "idle"
  /\ caller = "none"
  /\ cur = 0
  /\ attempt = 0
  /\ rbQueue = << >>
  /\ rbStep = 0
  /\ ctxDone = FALSE
  /\ rbCtxDone = FALSE
  /\ stepErr = NoErr
  /\ rbErr = NoErr
  /\ result = NoErr
  /\ fresh = FALSE
  /\ calls = 0
  /\ loads = 0
  /\ execLog = << >>
  /\ execTries = 0
  /\ compTries = 0
  /\ execFailed = FALSE
  /\ compLog = << >>
  /\ compFailed = FALSE
  /\ saveLog = << >>
  /\ saveFailed = FALSE
  /\ visitLog = << >>
  /\ fs = EmptyDir
  /\ loaded = NotLoaded
  /\ storeLog = NoStoreLog
  /\ proc = NoProcs
  /\ flock = NoLocks
  /\ git = NoGit
  /\ wctx = NoWctx

\* a new executor and the list of steps its caller is going to register
Init ==
  /\ plan \in WorkflowPlans
  /\ \E rollback \in BOOLEAN : NewSagaExecutor(rollback)

\* SagaExecutor.saveState against a repository that keeps the first state
\* it was handed
SaveStateKeepsFirst(st, ok, point, step) ==
  /\ persisted' = IF ok /\ ~persisted.saved
                  THEN [saved |-> TRUE, state |-> st] ELSE persisted
  /\ saveLog' = Append(saveLog, [at |-> point, step |-> step])
  /\ saveFailed' = (saveFailed \/ ~ok)

\* SagaExecutor.saveState that reports success without storing the state
SaveStateDropsWrite(st, ok, point, step) ==
  /\ persisted' = persisted
  /\ saveLog' = Append(saveLog, [at |-> point, step |-> step])
  /\ saveFailed' = (saveFailed \/ ~ok)

\* SagaExecutor.saveState against a repository that accepts the state or not
SaveState(st, ok, point, step) ==
  /\ persisted' = IF ok THEN [saved |-> TRUE, state |-> st] ELSE persisted
  /\ saveLog' = Append(saveLog, [at |-> point, step |-> step])
  /\ saveFailed' = (saveFailed \/ ~ok)

\* saveState called whether or not rollback is enabled
SaveAlways(st, ok, point, step) == SaveState(st, ok, point, step)

\* the guarded form in which a refused Save stops the workflow where it is
SaveOrStop(st, ok, point, step) ==
  IF enableRollback
  THEN ok /\ SaveState(st, ok, point, step)
  ELSE UNCHANGED << persisted, saveLog, saveFailed >>

\* the guarded form, if s.enableRollback { s.saveState(ctx) }
SaveIfEnabled(st, ok, point, step) ==
  IF enableRollback
  THEN SaveState(st, ok, point, step)
  ELSE UNCHANGED << persisted, saveLog, saveFailed >>

\* retry.WithMaxRetries that stops one retry early
RetryStopsEarly(given) == given + 1 >= DefaultRetryCount

\* retry.WithMaxRetries(DefaultRetryCount, ...): no further retry is handed out
RetryStops(given) == given >= DefaultRetryCount

\* SagaExecutor.findStepByType that returns the first step when none matches
FindStepByTypeOrFirst(ss, opType) ==
  LET hits == { i \in 1..Len(ss) : ss[i].type = opType }
  IN  IF hits = {} THEN (IF ss = << >> THEN 0 ELSE 1)
      ELSE CHOOSE i \in hits : \A j \in hits : i <= j

\* SagaExecutor.findStepByType: index of the first step of the type, 0 for nil
FindStepByType(ss, opType) ==
  LET hits == { i \in 1..Len(ss) : ss[i].type = opType }
  IN  IF hits = {} THEN 0 ELSE CHOOSE i \in hits : \A j \in hits : i <= j

\* Execute's error for a failing step that reports the rollback failure alone
ExecuteErrorRollbackOnly(name, err, rollbackEnabled, rollbackErr) ==
  IF rollbackEnabled /\ rollbackErr # NoErr
  THEN rollbackErr
  ELSE ErrStepFailed(name, err)

\* Execute's error for a failing step that returns the bare error when
\* rollback is disabled
ExecuteErrorBareWhenDisabled(name, err, rollbackEnabled, rollbackErr) ==
  IF rollbackEnabled /\ rollbackErr # NoErr
  THEN ErrStepAndRollbackFailed(name, err, rollbackErr)
  ELSE IF rollbackEnabled THEN ErrStepFailed(name, err) ELSE err

\* Execute's error for a failing step
ExecuteError(name, err, rollbackEnabled, rollbackErr) ==
  IF rollbackEnabled /\ rollbackErr # NoErr
  THEN ErrStepAndRollbackFailed(name, err, rollbackErr)
  ELSE ErrStepFailed(name, err)

\* the automatic rollback run under a context derived from the caller's
\* without context.WithoutCancel
RollbackCtxDoneWithCaller == rbCtxDone \/ ctxDone

\* rollback that looks at its timeout alone, whoever called it
RollbackCtxDoneTimeoutOnly == rbCtxDone

\* the context rollback runs under is done
RollbackCtxDone == IF caller = "Execute" THEN rbCtxDone ELSE ctxDone

\* ctx.Err() of the context rollback runs under
RollbackCtxErr == IF caller = "Execute" THEN CtxDeadline ELSE CtxCanceled

\* SagaExecutor.AddStep
AddStep ==
  /\ pc = "idle"
  /\ origin = "new"
  /\ calls = 0
  /\ Len(steps) < Len(plan)
  /\ LET i == Len(steps) + 1
         step == [name |-> WorkflowStepNames[i], type |-> plan[i].type,
                  hasComp |-> plan[i].hasComp, hasExec |-> TRUE]
     IN  /\ steps' = Append(steps, step)
         /\ state' = AddOperation(state, step.type)
  /\ UNCHANGED << store, plan, enableRollback, origin, persisted, pc, caller, cur,
                  attempt, rbQueue, rbStep, ctxDone, rbCtxDone, stepErr, rbErr,
                  result, fresh, calls, loads, logs >>

\* the initial save of Execute taken as best effort, like the later saves
InitialSaveBestEffort(rollbackEnabled, ok) == FALSE

\* whether Execute returns after its initial save: with rollback enabled and
\* a save that failed
InitialSaveStops(rollbackEnabled, ok) == rollbackEnabled /\ ~ok

\* Execute up to the loop over the steps: the initial save and the status
ExecuteBegin ==
  /\ pc = "idle"
  /\ origin = "new"
  /\ calls < MaxCalls
  /\ Len(steps) = Len(plan)
  /\ \E ok \in BOOLEAN :
       /\ caller' = "Execute"
       /\ calls' = calls + 1
       /\ ctxDone' = FALSE
       /\ rbCtxDone' = FALSE
       /\ fresh' = (state.status = "pending"
                    /\ \A i \in 1..Len(state.ops) : state.ops[i].status = "pending")
       /\ execLog' = << >>
       /\ execTries' = 0 /\ compTries' = 0
       /\ execFailed' = FALSE
       /\ compLog' = << >>
       /\ compFailed' = FALSE
       /\ visitLog' = << >>
       /\ stepErr' = NoErr
       /\ rbErr' = NoErr
       /\ rbQueue' = << >>
       /\ rbStep' = 0
       /\ attempt' = 0
       /\ persisted' = IF enableRollback /\ ok
                       THEN [saved |-> TRUE, state |-> state] ELSE persisted
       /\ saveLog' = IF enableRollback
                     THEN << [at |-> "initial", step |-> 0] >>
                     ELSE << >>
       /\ saveFailed' = (enableRollback /\ ~ok)
       /\ IF InitialSaveStops(enableRollback, ok)
          THEN /\ result' = ErrInitialSave(SaveErr)
               /\ pc' = "idle"
               /\ cur' = 0
               /\ state' = state
          ELSE /\ state' = [state EXCEPT !.status = "running"]
               /\ cur' = 1
               /\ pc' = "exec_loop"
               /\ result' = NoErr
  /\ UNCHANGED << store, plan, enableRollback, origin, steps, loads >>

\* executeStep up to the retry loop: the record is marked running and saved
ExecuteStepBegin ==
  /\ pc = "exec_loop"
  /\ cur <= Len(steps)
  /\ \E ok \in BOOLEAN :
       LET st == MarkOperationStarted(state, steps[cur].type)
       IN  /\ state' = st
           /\ SaveIfEnabled(st, ok, "started", cur)
  /\ attempt' = 0
  /\ execTries' = 0
  /\ pc' = "exec_try"
  /\ UNCHANGED << store, plan, enableRollback, origin, steps, caller, cur, rbQueue,
                  rbStep, ctxDone, rbCtxDone, stepErr, rbErr, result, fresh,
                  calls, loads, execLog, compTries, execFailed, compLog,
                  compFailed, visitLog >>

\* Execute after executeStep returned err: the record is marked failed and,
\* with rollback enabled, saved and rolled back under a context of its own
StepFailed(err, ok) ==
  LET step == steps[cur]
      st == MarkOperationFailed(state, step.type, err)
      completedOps == GetCompletedOperations(st.ops)
  IN  /\ state' = st
      /\ stepErr' = err
      /\ rbCtxDone' = FALSE
      /\ SaveIfEnabled(st, ok, "failed", cur)
      /\ IF enableRollback /\ completedOps # << >>
         THEN /\ pc' = "rb_visit"
              /\ rbQueue' = completedOps
              /\ UNCHANGED << result, rbErr >>
         ELSE /\ pc' = "idle"
              /\ rbQueue' = << >>
              /\ rbErr' = NoErr
              /\ result' = ExecuteError(step.name, err, enableRollback, NoErr)

\* one turn of retry.Do in executeStep: the context check, then step.Execute
ExecuteStepTry ==
  /\ pc = "exec_try"
  /\ \E succeeds, ok \in BOOLEAN :
       LET step == steps[cur] IN
       IF ctxDone
       THEN /\ StepFailed(CtxCanceled, ok)
            /\ UNCHANGED << execLog, execTries, execFailed, attempt, cur >>
       ELSE /\ execLog' = IF execTries = 0 THEN Append(execLog, cur) ELSE execLog
            /\ execTries' = execTries + 1
            /\ execFailed' = (execFailed \/ ~succeeds)
            /\ IF succeeds
               THEN LET st == MarkOperationCompleted(state, step.type,
                                                     DataOf(step.name))
                    IN  /\ state' = st
                        /\ SaveIfEnabled(st, ok, "completed", cur)
                        /\ cur' = cur + 1
                        /\ pc' = "exec_loop"
                        /\ UNCHANGED << attempt, stepErr, rbCtxDone, rbQueue,
                                        rbErr, result >>
               ELSE IF RetryStops(attempt)
                    THEN /\ StepFailed(ExecErr(step.name), ok)
                         /\ UNCHANGED << attempt, cur >>
                    ELSE /\ attempt' = attempt + 1
                         /\ UNCHANGED << state, persisted, saveLog, saveFailed,
                                         cur, pc, stepErr, rbCtxDone, rbQueue,
                                         rbErr, result >>
  /\ UNCHANGED << store, plan, enableRollback, origin, steps, caller, rbStep, ctxDone,
                  fresh, calls, loads, compTries, compLog, compFailed,
                  visitLog >>

\* Execute after the last step: the workflow is completed and saved
ExecuteFinish ==
  /\ pc = "exec_loop"
  /\ cur > Len(steps)
  /\ \E ok \in BOOLEAN :
       LET st == [state EXCEPT !.status = "completed"]
       IN  /\ state' = st
           /\ SaveIfEnabled(st, ok, "final", 0)
  /\ result' = NoErr
  /\ pc' = "idle"
  /\ UNCHANGED << store, plan, enableRollback, origin, steps, caller, cur, attempt,
                  rbQueue, rbStep, ctxDone, rbCtxDone, stepErr, rbErr, fresh,
                  calls, loads, execLog, execTries, compTries, execFailed, compLog, compFailed,
                  visitLog >>

\* rollback returns err to the public call that runs it
RollbackReturn(err) ==
  /\ rbErr' = err
  /\ pc' = "idle"
  /\ result' = IF caller = "Execute"
               THEN ExecuteError(steps[cur].name, stepErr, enableRollback, err)
               ELSE err

\* the public Rollback up to the loop over the completed operations
RollbackBegin ==
  /\ pc = "idle"
  /\ calls < MaxCalls
  /\ Len(steps) = Len(plan) \/ origin = "loaded"
  /\ caller' = "Rollback"
  /\ calls' = calls + 1
  /\ ctxDone' = FALSE
  /\ execLog' = << >>
  /\ execTries' = 0 /\ compTries' = 0
  /\ execFailed' = FALSE
  /\ compLog' = << >>
  /\ compFailed' = FALSE
  /\ saveLog' = << >>
  /\ saveFailed' = FALSE
  /\ visitLog' = << >>
  /\ stepErr' = NoErr
  /\ fresh' = FALSE
  /\ rbStep' = 0
  /\ attempt' = 0
  /\ LET completedOps == GetCompletedOperations(state.ops)
     IN  /\ rbQueue' = completedOps
         /\ rbErr' = NoErr
         /\ result' = NoErr
         /\ pc' = IF completedOps = << >> THEN "idle" ELSE "rb_visit"
  /\ UNCHANGED << store, plan, enableRollback, origin, steps, state, persisted, cur,
                  rbCtxDone, loads >>

\* one turn of rollback's loop: the context check and the step lookup
RollbackVisit ==
  /\ pc = "rb_visit"
  /\ rbQueue # << >>
  /\ LET op == Head(rbQueue)
         i == FindStepByType(steps, op.type)
     IN  IF RollbackCtxDone
         THEN /\ RollbackReturn(ErrRollbackCanceled(RollbackCtxErr))
              /\ UNCHANGED << rbQueue, rbStep, attempt, compTries, visitLog >>
         ELSE /\ visitLog' = Append(visitLog, op.pos)
              /\ IF i = 0 \/ ~steps[i].hasComp
                 THEN /\ rbQueue' = Tail(rbQueue)
                      /\ UNCHANGED << rbStep, attempt, compTries, pc >>
                 ELSE /\ rbStep' = i
                      /\ attempt' = 0
                      /\ compTries' = 0
                      /\ pc' = "rb_try"
                      /\ UNCHANGED rbQueue
              /\ UNCHANGED << rbErr, result >>
  /\ UNCHANGED << store, plan, enableRollback, origin, steps, state, persisted, caller,
                  cur, ctxDone, rbCtxDone, stepErr, fresh, calls, loads,
                  execLog, execTries, execFailed, compLog, compFailed, saveLog,
                  saveFailed >>

\* one turn of retry.Do in executeCompensation: the context check, then
\* step.Compensate with the rollback data of the record, then rollback's save
CompensationTry ==
  /\ pc = "rb_try"
  /\ \E succeeds, ok \in BOOLEAN :
       LET op == Head(rbQueue)
           step == steps[rbStep]
       IN
       IF RollbackCtxDone
       THEN /\ RollbackReturn(ErrRollbackFailedFor(step.name, RollbackCtxErr))
            /\ UNCHANGED << compLog, compTries, compFailed, attempt, rbQueue,
                            persisted, saveLog, saveFailed >>
       ELSE /\ compLog' = IF compTries = 0
                          THEN Append(compLog, [step |-> rbStep, pos |-> op.pos,
                                                data |-> op.data])
                          ELSE compLog
            /\ compTries' = compTries + 1
            /\ compFailed' = (compFailed \/ ~succeeds)
            /\ IF succeeds
               THEN /\ SaveIfEnabled(state, ok, "compensated", rbStep)
                    /\ rbQueue' = Tail(rbQueue)
                    /\ pc' = "rb_visit"
                    /\ UNCHANGED << attempt, rbErr, result >>
               ELSE IF RetryStops(attempt)
                    THEN /\ RollbackReturn(
                              ErrRollbackFailedFor(step.name, CompErr(step.name)))
                         /\ UNCHANGED << attempt, rbQueue, persisted, saveLog,
                                         saveFailed >>
                    ELSE /\ attempt' = attempt + 1
                         /\ UNCHANGED << rbQueue, persisted, saveLog, saveFailed,
                                         pc, rbErr, result >>
  /\ UNCHANGED << store, plan, enableRollback, origin, steps, state, caller, cur,
                  rbStep, ctxDone, rbCtxDone, stepErr, fresh, calls, loads,
                  execLog, execTries, execFailed, visitLog >>

\* rollback after its loop: the workflow is rolled back and saved
RollbackFinish ==
  /\ pc = "rb_visit"
  /\ rbQueue = << >>
  /\ \E ok \in BOOLEAN :
       LET st == [state EXCEPT !.status = "rolled_back"]
       IN  /\ state' = st
           /\ SaveIfEnabled(st, ok, "rolled_back", 0)
  /\ RollbackReturn(NoErr)
  /\ UNCHANGED << store, plan, enableRollback, origin, steps, caller, cur, attempt,
                  rbQueue, rbStep, ctxDone, rbCtxDone, stepErr, fresh, calls,
                  loads, execLog, execTries, compTries, execFailed, compLog, compFailed,
                  visitLog >>

\* the caller cancels the context it passed to the call in progress
CancelContext ==
  /\ pc # "idle"
  /\ ~ctxDone
  /\ ctxDone' = TRUE
  /\ UNCHANGED << store, plan, enableRollback, origin, steps, state, persisted, pc,
                  caller, cur, attempt, rbQueue, rbStep, rbCtxDone, stepErr,
                  rbErr, result, fresh, calls, loads, logs >>

\* RollbackTimeout passes while the automatic rollback runs
RollbackTimeout ==
  /\ pc \in {"rb_visit", "rb_try"}
  /\ caller = "Execute"
  /\ ~rbCtxDone
  /\ rbCtxDone' = TRUE
  /\ UNCHANGED << store, plan, enableRollback, origin, steps, state, persisted, pc,
                  caller, cur, attempt, rbQueue, rbStep, ctxDone, stepErr,
                  rbErr, result, fresh, calls, loads, logs >>

\* the compensations performRollback knows, by operation type
CompensateMapTypes ==
  { OperationTypeNames[i] : i \in 1..Len(OperationTypeNames) } \ {"checkout_branch"}

\* rebuildSagaSteps: one AddStep per loaded record whose type has a compensation
RECURSIVE RebuildSagaSteps(_, _, _)
RebuildSagaSteps(loadedOps, i, saga) ==
  IF i > Len(loadedOps) THEN saga
  ELSE IF loadedOps[i].type \in CompensateMapTypes
       THEN RebuildSagaSteps(loadedOps, i + 1,
              [steps |-> Append(saga.steps,
                                [name |-> loadedOps[i].type,
                                 type |-> loadedOps[i].type,
                                 hasComp |-> TRUE, hasExec |-> FALSE]),
               state |-> AddOperation(saga.state, loadedOps[i].type)])
       ELSE RebuildSagaSteps(loadedOps, i + 1, saga)

\* performRollback up to saga.Rollback, in a process started after the one that
\* saved the session: LoadExistingSaga, then rebuildSagaSteps
LoadExistingSaga ==
  /\ persisted.saved
  /\ loads < MaxLoads
  /\ LET saga == RebuildSagaSteps(persisted.state.ops, 1,
                                  [steps |-> << >>, state |-> persisted.state])
     IN  /\ steps' = saga.steps
         /\ state' = saga.state
  /\ enableRollback' = TRUE
  /\ origin' = "loaded"
  /\ loads' = loads + 1
  /\ calls' = 0
  /\ pc' = "idle"
  /\ caller' = "none"
  /\ cur' = 0
  /\ attempt' = 0
  /\ rbQueue' = << >>
  /\ rbStep' = 0
  /\ ctxDone' = FALSE
  /\ rbCtxDone' = FALSE
  /\ stepErr' = NoErr
  /\ rbErr' = NoErr
  /\ result' = NoErr
  /\ fresh' = FALSE
  /\ execLog' = << >>
  /\ execTries' = 0 /\ compTries' = 0
  /\ execFailed' = FALSE
  /\ compLog' = << >>
  /\ compFailed' = FALSE
  /\ saveLog' = << >>
  /\ saveFailed' = FALSE
  /\ visitLog' = << >>
  /\ UNCHANGED << store, plan, persisted >>

Next ==
  \/ AddStep
  \/ ExecuteBegin
  \/ ExecuteStepBegin
  \/ ExecuteStepTry
  \/ ExecuteFinish
  \/ RollbackBegin
  \/ RollbackVisit
  \/ CompensationTry
  \/ RollbackFinish
  \/ CancelContext
  \/ RollbackTimeout
  \/ LoadExistingSaga

Spec == Init /\ [][Next]_vars

\* the step lists AddStep accepts beyond those of the release workflow: any
\* operation types, the same type more than once
RepeatedPlans ==
  UNION { { [i \in 1..n |-> [type |-> t[i], hasComp |-> c[i]]] :
            t \in [1..n -> {OperationTypeNames[3], OperationTypeNames[8]}],
            c \in [1..n -> BOOLEAN] } : n \in 0..MaxSteps }

\* a new executor with rollback enabled and a list of steps in which
\* operation types may repeat
InitRepeated ==
  /\ plan \in RepeatedPlans
  /\ NewSagaExecutor(TRUE)

SpecRepeated == InitRepeated /\ [][Next]_vars

(* ------------------- RollbackState called directly -------------------- *)

\* the operation types the direct calls are made with
DirectCallTypes == { OperationTypeNames[3], OperationTypeNames[8] }

\* a new RollbackState in an executor that is never run
InitState ==
  /\ plan = << >>
  /\ NewSagaExecutor(FALSE)

\* rs.AddOperation(opType)
AddOperationCall ==
  /\ Len(state.ops) < MaxRecords
  /\ \E opType \in DirectCallTypes : state' = AddOperation(state, opType)
  /\ UNCHANGED << store, plan, enableRollback, origin, steps, persisted, pc, caller,
                  cur, attempt, rbQueue, rbStep, ctxDone, rbCtxDone, stepErr,
                  rbErr, result, fresh, calls, loads, logs >>

\* rs.MarkOperationStarted(opType)
MarkOperationStartedCall ==
  /\ \E opType \in DirectCallTypes : state' = MarkOperationStarted(state, opType)
  /\ UNCHANGED << store, plan, enableRollback, origin, steps, persisted, pc, caller,
                  cur, attempt, rbQueue, rbStep, ctxDone, rbCtxDone, stepErr,
                  rbErr, result, fresh, calls, loads, logs >>

\* rs.MarkOperationCompleted(opType, rollbackData)
MarkOperationCompletedCall ==
  /\ \E opType \in DirectCallTypes :
       state' = MarkOperationCompleted(state, opType, DataOf(opType))
  /\ UNCHANGED << store, plan, enableRollback, origin, steps, persisted, pc, caller,
                  cur, attempt, rbQueue, rbStep, ctxDone, rbCtxDone, stepErr,
                  rbErr, result, fresh, calls, loads, logs >>

\* rs.MarkOperationFailed(opType, err)
MarkOperationFailedCall ==
  /\ \E opType \in DirectCallTypes :
       state' = MarkOperationFailed(state, opType, ExecErr(opType))
  /\ UNCHANGED << store, plan, enableRollback, origin, steps, persisted, pc, caller,
                  cur, attempt, rbQueue, rbStep, ctxDone, rbCtxDone, stepErr,
                  rbErr, result, fresh, calls, loads, logs >>

NextState ==
  \/ AddOperationCall
  \/ MarkOperationStartedCall
  \/ MarkOperationCompletedCall
  \/ MarkOperationFailedCall

SpecState == InitState /\ [][NextState]_vars

(* ------------- a session loaded and rolled back by its caller ---------- *)

\* the state Execute saves for a workflow of n steps of which the first k are
\* completed and, for k < n, the next one has the status next
SavedState(n, k, next) ==
  [status |-> IF k = n THEN "completed"
              ELSE IF next = "failed" THEN "failed"
              ELSE IF k = 0 /\ next = "pending" THEN "pending" ELSE "running",
   ops |-> [i \in 1..n |->
              [type |-> WorkflowStepTypes[i],
               status |-> IF i <= k THEN "completed"
                          ELSE IF i = k + 1 THEN next ELSE "pending",
               data |-> IF i <= k THEN DataOf(WorkflowStepNames[i]) ELSE NoData,
               error |-> IF i = k + 1 /\ next = "failed"
                         THEN ExecErr(WorkflowStepNames[i]) ELSE NoErr]],
   error |-> IF k < n /\ next = "failed"
             THEN ExecErr(WorkflowStepNames[k + 1]) ELSE NoErr]

\* the states a session can be loaded in
SavedStates ==
  UNION { { SavedState(n, k, next) :
              k \in 0..n, next \in {"pending", "running", "failed"} } :
          n \in 1..MaxSteps }

\* the steps a caller registers on a saga loaded with n records: for each
\* record's type no step, a step without a compensate function or a step with
\* one, in the order of the records
RECURSIVE RegisteredSteps(_, _)
RegisteredSteps(choice, i) ==
  IF i > Len(choice) THEN << >>
  ELSE IF choice[i] = "none" THEN RegisteredSteps(choice, i + 1)
       ELSE << [type |-> WorkflowStepTypes[i], hasComp |-> (choice[i] = "compensate")] >>
            \o RegisteredSteps(choice, i + 1)

\* LoadExistingSaga seen by its caller: the state of the session, no steps,
\* rollback enabled
InitLoaded ==
  /\ \E st \in SavedStates :
       /\ state = st
       /\ persisted = [saved |-> TRUE, state |-> st]
       /\ \E choice \in [1..Len(st.ops) -> {"none", "nil", "compensate"}] :
            plan = RegisteredSteps(choice, 1)
  /\ enableRollback = TRUE
  /\ origin = "loaded"
  /\ steps = << >>
  /\ pc = "idle"
  /\ caller = "none"
  /\ cur = 0
  /\ attempt = 0
  /\ rbQueue = << >>
  /\ rbStep = 0
  /\ ctxDone = FALSE
  /\ rbCtxDone = FALSE
  /\ stepErr = NoErr
  /\ rbErr = NoErr
  /\ result = NoErr
  /\ fresh = FALSE
  /\ calls = 0
  /\ loads = 1
  /\ execLog = << >>
  /\ execTries = 0
  /\ compTries = 0
  /\ execFailed = FALSE
  /\ compLog = << >>
  /\ compFailed = FALSE
  /\ saveLog = << >>
  /\ saveFailed = FALSE
  /\ visitLog = << >>
  /\ fs = EmptyDir
  /\ loaded = NotLoaded
  /\ storeLog = NoStoreLog
  /\ proc = NoProcs
  /\ flock = NoLocks
  /\ git = NoGit
  /\ wctx = NoWctx

\* SagaExecutor.AddStep on a loaded saga: the step has no execute function
AddStepLoaded ==
  /\ pc = "idle"
  /\ origin = "loaded"
  /\ calls = 0
  /\ Len(steps) < Len(plan)
  /\ LET i == Len(steps) + 1
         step == [name |-> plan[i].type, type |-> plan[i].type,
                  hasComp |-> plan[i].hasComp, hasExec |-> FALSE]
     IN  /\ steps' = Append(steps, step)
         /\ state' = AddOperation(state, step.type)
  /\ UNCHANGED << store, plan, enableRollback, origin, persisted, pc, caller, cur,
                  attempt, rbQueue, rbStep, ctxDone, rbCtxDone, stepErr, rbErr,
                  result, fresh, calls, loads, logs >>

NextLoaded ==
  \/ AddStepLoaded
  \/ RollbackBegin
  \/ RollbackVisit
  \/ CompensationTry
  \/ RollbackFinish
  \/ CancelContext

SpecLoaded == InitLoaded /\ [][NextLoaded]_vars

(* ------------------------- JSONStateRepository ------------------------- *)

\* the units a Go string is made of here: an ASCII letter, the rune U+FFFD in
\* its UTF-8 encoding, and a byte that is not valid UTF-8
StringUnits == {"a", "U+FFFD", "0xFF"}

\* the Go strings of at most one unit
GoStrings == { << >> } \cup { << u >> : u \in StringUnits }

\* the integer n, or 2^53 + n when above2p53
IntegerValue(above2p53, n) == [above2p53 |-> above2p53, n |-> n]

\* Go values an execute function puts in its rollback data
GoString(s) == [go |-> "string", v |-> s]

GoBool(b) == [go |-> "bool", v |-> b]

GoInt(x) == [go |-> "int", v |-> x]

GoStringSlice(ss) == [go |-> "[]string", v |-> ss]

\* Go values json.Unmarshal puts in a map[string]any
GoFloat64(x) == [go |-> "float64", v |-> x]

GoAnySlice(vs) == [go |-> "[]interface {}", v |-> vs]

\* strconv.ParseFloat of an integer literal: exact up to 2^53, the nearest
\* multiple of 2 (ties to the even mantissa) between 2^53 and 2^54
Float64Of(x) ==
  IF ~x.above2p53 \/ x.n % 2 = 0 THEN x
  ELSE [x EXCEPT !.n = IF x.n % 4 = 1 THEN x.n - 1 ELSE x.n + 1]

\* encoding/json writing a string: a byte that is not valid UTF-8 is written as
\* the escape backslash-ufffd, everything else here as it is
MarshalString(s) ==
  [json |-> "string",
   text |-> [i \in 1..Len(s) |-> IF s[i] = "0xFF" THEN "\\ufffd" ELSE s[i]]]

\* encoding/json reading a string: the escape backslash-ufffd gives the rune
\* U+FFFD, and so does a byte that is not valid UTF-8
UnmarshalString(j) ==
  [i \in 1..Len(j.text) |->
     IF j.text[i] \in {"\\ufffd", "0xFF"} THEN "U+FFFD" ELSE j.text[i]]

\* encoding/json writing a value of a map[string]any; an integral float64
\* below 1e21 is written without exponent, like the integer
RECURSIVE MarshalValue(_)
MarshalValue(v) ==
  CASE v.go = "string" -> MarshalString(v.v)
    [] v.go = "bool" -> [json |-> "bool", lit |-> v.v]
    [] v.go = "int" -> [json |-> "number", lit |-> v.v]
    [] v.go = "float64" -> [json |-> "number", lit |-> v.v]
    [] v.go = "[]string" ->
         [json |-> "array",
          elems |-> [i \in 1..Len(v.v) |-> MarshalString(v.v[i])]]
    [] v.go = "[]interface {}" ->
         [json |-> "array",
          elems |-> [i \in 1..Len(v.v) |-> MarshalValue(v.v[i])]]

\* encoding/json reading a value into an any: a number becomes a float64, an
\* array a []any
RECURSIVE UnmarshalValue(_)
UnmarshalValue(j) ==
  CASE j.json = "string" -> GoString(UnmarshalString(j))
    [] j.json = "bool" -> GoBool(j.lit)
    [] j.json = "number" -> GoFloat64(Float64Of(j.lit))
    [] j.json = "array" ->
         GoAnySlice([i \in 1..Len(j.elems) |-> UnmarshalValue(j.elems[i])])

\* json.Marshal of an OperationRecord (rollback_data is omitted when empty)
MarshalRecord(op) ==
  [type |-> op.type,
   status |-> op.status,
   rollback_data |-> [k \in DOMAIN op.data |-> MarshalValue(op.data[k])],
   error |-> MarshalString(op.error)]

\* json.Unmarshal into an OperationRecord
UnmarshalRecord(j) ==
  [type |-> j.type,
   status |-> j.status,
   data |-> [k \in DOMAIN j.rollback_data |-> UnmarshalValue(j.rollback_data[k])],
   error |-> UnmarshalString(j.error)]

\* json.Marshal of a RollbackState
MarshalState(st) ==
  [session_id |-> MarshalString(st.session_id),
   version |-> MarshalString(st.version),
   status |-> st.status,
   error |-> MarshalString(st.error),
   operations |-> [i \in 1..Len(st.ops) |-> MarshalRecord(st.ops[i])]]

\* json.Unmarshal into a RollbackState
UnmarshalState(j) ==
  [session_id |-> UnmarshalString(j.session_id),
   version |-> UnmarshalString(j.version),
   status |-> j.status,
   error |-> UnmarshalString(j.error),
   ops |-> [i \in 1..Len(j.operations) |-> UnmarshalRecord(j.operations[i])]]

\* a checksum that does not depend on the data
CalculateChecksumBlind(data) == [sha256 |-> << >>]

\* JSONStateRepository.calculateChecksum: SHA-256 of the encoded state, taken
\* to be free of collisions
CalculateChecksum(data) == [sha256 |-> data]

\* JSONStateRepository.getStateFilename
GetStateFilename(sessionID) == << "state-", sessionID, ".json" >>

\* JSONStateRepository.getLockFilename
GetLockFilename(sessionID) == << ".state-", sessionID, ".lock" >>

\* JSONStateRepository.getLatestLink
GetLatestLink == << "latest.txt" >>

\* afero.WriteFile, and the outcome of Rename onto name
WriteFile(dir, name, data) ==
  [n \in (DOMAIN dir) \cup {name} |-> IF n = name THEN data ELSE dir[n]]

\* the errors of Save and Load
ErrAcquireLock == [kind |-> "failed to acquire lock"]

ErrWriteTemp == [kind |-> "failed to write temp state file"]

ErrRename == [kind |-> "failed to rename state file"]

ErrUpdateLatest == [kind |-> "failed to update latest link"]

ErrAcquireSharedLock == [kind |-> "failed to acquire shared lock"]

ErrNotFound == [kind |-> "state not found for session"]

\* a schema mismatch reported as a checksum mismatch
ErrSchemaVersionAsChecksum == [kind |-> "state checksum mismatch"]

ErrSchemaVersion == [kind |-> "incompatible schema version"]

ErrChecksum == [kind |-> "state checksum mismatch"]

\* the rollback data the steps of the release workflow return, by the Go types
\* of their values, with an integer on each side of 2^53
RollbackDataBags ==
  { << >>,
    [pushed |-> GoBool(TRUE)],
    [pr_number |-> GoInt(IntegerValue(FALSE, 0))],
    [pr_number |-> GoInt(IntegerValue(TRUE, 1))],
    [modified_files |-> GoStringSlice(<< << "a" >> >>)] }
  \cup { [changelog |-> GoString(text)] : text \in GoStrings }

\* the records of a state: a completed one with its rollback data, a failed
\* one with its error
StoredRecords ==
  { [type |-> OperationTypeNames[9], status |-> "completed", data |-> d,
     error |-> << >>] : d \in RollbackDataBags }
  \cup { [type |-> OperationTypeNames[9], status |-> "failed", data |-> << >>,
          error |-> e] : e \in GoStrings \ { << >> } }

\* the sequences of at most n records
RECURSIVE RecordSeqs(_)
RecordSeqs(n) ==
  IF n = 0 THEN { << >> }
  ELSE RecordSeqs(n - 1)
       \cup { Append(ops, op) : ops \in { q \in RecordSeqs(n - 1) : Len(q) = n - 1 },
                                  op \in StoredRecords }

\* the states handed to Save: the session id and version of a run, a status
\* with the error that goes with it, at most MaxStoredRecords records
StoredStates ==
  { [session_id |-> << "a" >>, version |-> << "a" >>, status |-> se[1],
     error |-> se[2], ops |-> ops] :
      se \in ({ << "running", << >> >>, << "completed", << >> >> }
                \cup { << "failed", e >> : e \in GoStrings \ { << >> } }),
      ops \in RecordSeqs(MaxStoredRecords) }

\* NewJSONStateRepository on an empty state directory, and the state its
\* caller is going to save
InitStore ==
  /\ state \in StoredStates
  /\ fs = EmptyDir
  /\ loaded = NotLoaded
  /\ storeLog = NoStoreLog
  /\ proc = NoProcs
  /\ flock = NoLocks
  /\ git = NoGit
  /\ wctx = NoWctx
  /\ persisted = [saved |-> FALSE, state |-> NewRollbackState]
  /\ plan = << >>
  /\ enableRollback = TRUE
  /\ origin = "new"
  /\ steps = << >>
  /\ pc = "idle"
  /\ caller = "none"
  /\ cur = 0
  /\ attempt = 0
  /\ rbQueue = << >>
  /\ rbStep = 0
  /\ ctxDone = FALSE
  /\ rbCtxDone = FALSE
  /\ stepErr = NoErr
  /\ rbErr = NoErr
  /\ result = NoErr
  /\ fresh = FALSE
  /\ calls = 0
  /\ loads = 0
  /\ execLog = << >>
  /\ execTries = 0
  /\ compTries = 0
  /\ execFailed = FALSE
  /\ compLog = << >>
  /\ compFailed = FALSE
  /\ saveLog = << >>
  /\ saveFailed = FALSE
  /\ visitLog = << >>

\* the indentation json.MarshalIndent puts in the file
Indent == "  "

\* a file that holds a whole wrapper (anything else does not parse)
IsWrapper(data) == "metadata" \in DOMAIN data

\* a file cut short
Truncated == [partial |-> TRUE]

\* a Remove that leaves the file where it is
RemoveFileKeeps(dir, name) == dir

\* afero.Fs.Remove, and what Rename does to the old name
RemoveFile(dir, name) == [n \in (DOMAIN dir) \ {name} |-> dir[n]]

\* what Save puts in the state file of st
WrapperOf(st) ==
  [metadata |-> [schema_version |-> StateSchemaVersion,
                 checksum |-> CalculateChecksum(MarshalState(st))],
   state |-> MarshalState(st),
   layout |-> Indent]

ErrUnmarshal == [kind |-> "failed to unmarshal state wrapper"]

\* Load once the shared lock is held: the file, the wrapper, the schema
\* version and the checksum of the state as it was decoded
ReadState(dir, sessionID) ==
  LET filename == GetStateFilename(sessionID)
      failed(err) == [called |-> TRUE, ok |-> FALSE, err |-> err]
  IN  IF filename \notin DOMAIN dir THEN failed(ErrNotFound)
      ELSE IF ~IsWrapper(dir[filename]) THEN failed(ErrUnmarshal)
      ELSE LET wrapper == dir[filename]
               st == UnmarshalState(wrapper.state)
           IN  IF wrapper.metadata.schema_version # StateSchemaVersion
               THEN failed(ErrSchemaVersion)
               ELSE IF wrapper.metadata.checksum
                         # CalculateChecksum(MarshalState(st))
                    THEN failed(ErrChecksum)
                    ELSE [called |-> TRUE, ok |-> TRUE, err |-> NoErr,
                          state |-> st]

\* the steps of Save that can fail, and "none" for a Save that succeeds
SaveFailures == {"none", "lock", "write", "rename", "latest"}

\* JSONStateRepository.Save where the step named by failure fails: the lock,
\* the checksum, the wrapper, the temp file and its rename, the latest link.
\* The outcomes: the directory, the error returned and the log afterwards
SaveOutcomes(dir, log, st, failure) ==
  LET filename == GetStateFilename(st.session_id)
      lockFile == GetLockFilename(st.session_id)
      tempFile == << filename, ".tmp" >>
      wrapper == WrapperOf(st)
      locked == WriteFile(dir, lockFile, << >>)
      written == RemoveFile(WriteFile(locked, filename, wrapper), tempFile)
      quiet == [log EXCEPT !.warned = FALSE]
      failed == [quiet EXCEPT !.failed = TRUE]
      logged == [quiet EXCEPT !.written = WriteFile(@, filename, wrapper)]
      out(d, err, l) == [fs |-> d, result |-> err, storeLog |-> l]
  IN  CASE failure = "lock" ->
             { out(dir, ErrAcquireLock, failed),
               out(locked, ErrAcquireLock, failed) }
        [] failure = "write" ->
             { out(locked, ErrWriteTemp, failed),
               out(WriteFile(locked, tempFile, Truncated), ErrWriteTemp, failed) }
        [] failure = "rename" ->
             { out(RemoveFile(locked, tempFile), ErrRename, failed),
               out(WriteFile(locked, tempFile, wrapper), ErrRename,
                   [failed EXCEPT !.warned = TRUE]) }
        [] failure = "latest" ->
             { out(written, ErrUpdateLatest, [logged EXCEPT !.failed = TRUE]) }
        [] failure = "none" ->
             { out(WriteFile(written, GetLatestLink, filename), NoErr,
                   [logged EXCEPT !.last = << st >>]) }

\* JSONStateRepository.Save
Save ==
  /\ \E failure \in SaveFailures :
       \E o \in SaveOutcomes(fs, storeLog, state, failure) :
         /\ fs' = o.fs
         /\ result' = o.result
         /\ storeLog' = o.storeLog
  /\ caller' = "Save"
  /\ loaded' = NotLoaded
  /\ UNCHANGED << plan, enableRollback, origin, steps, state, persisted, pc,
                  cur, attempt, rbQueue, rbStep, ctxDone, rbCtxDone, stepErr,
                  rbErr, fresh, calls, loads, logs, proc, flock, git, wctx >>

\* JSONStateRepository.Load: the shared lock, then the file
Load ==
  /\ \E sessionID \in {state.session_id}, locks \in BOOLEAN :
       LET locked == WriteFile(fs, GetLockFilename(sessionID), << >>)
       IN  IF ~locks
           THEN /\ fs' \in {fs, locked}
                /\ loaded' = [called |-> TRUE, ok |-> FALSE,
                              err |-> ErrAcquireSharedLock]
           ELSE /\ fs' = locked
                /\ loaded' = ReadState(fs, sessionID)
  /\ caller' = "Load"
  /\ UNCHANGED << plan, enableRollback, origin, steps, state, persisted, pc,
                  cur, attempt, rbQueue, rbStep, ctxDone, rbCtxDone, stepErr,
                  rbErr, result, fresh, calls, loads, logs, storeLog, proc,
                  flock, git, wctx >>

NextStore ==
  \/ Save
  \/ Load

SpecStore == InitStore /\ [][NextStore]_vars

(* ------------------ several sessions in one directory ------------------- *)

\* the session ids of two runs (uuid.New().String())
SessionIDs == { << "a" >>, << "b" >> }

\* the states of the two sessions a caller saves: a running one and a failed
\* one for each, the error of the failed one with an invalid byte
LatestStates ==
  { [session_id |-> id, version |-> << "a" >>, status |-> se[1],
     error |-> se[2], ops |-> << >>] :
      id \in SessionIDs,
      se \in { << "running", << >> >>, << "failed", << "0xFF" >> >> } }

ErrNoLatest == [kind |-> "no latest state found"]

ErrInvalidLatest == [kind |-> "invalid latest link target"]

ErrAcquireLockDeletion == [kind |-> "failed to acquire lock for deletion"]

ErrDeleteFile == [kind |-> "failed to delete state file"]

ErrCheckFile == [kind |-> "failed to check state file"]

\* JSONStateRepository.extractSessionID: the part of state-<id>.json between
\* the prefix and the suffix, empty when the name has another form or no id
ExtractSessionID(filename) ==
  IF Len(filename) = 3 /\ filename[1] = "state-" /\ filename[3] = ".json"
       /\ Len(filename[2]) > 0
  THEN filename[2]
  ELSE << >>

InitLatest ==
  /\ state \in LatestStates
  /\ fs = EmptyDir
  /\ loaded = NotLoaded
  /\ storeLog = NoStoreLog
  /\ proc = NoProcs
  /\ flock = NoLocks
  /\ git = NoGit
  /\ wctx = NoWctx
  /\ persisted = [saved |-> FALSE, state |-> NewRollbackState]
  /\ plan = << >>
  /\ enableRollback = TRUE
  /\ origin = "new"
  /\ steps = << >>
  /\ pc = "idle"
  /\ caller = "none"
  /\ cur = 0
  /\ attempt = 0
  /\ rbQueue = << >>
  /\ rbStep = 0
  /\ ctxDone = FALSE
  /\ rbCtxDone = FALSE
  /\ stepErr = NoErr
  /\ rbErr = NoErr
  /\ result = NoErr
  /\ fresh = FALSE
  /\ calls = 0
  /\ loads = 0
  /\ execLog = << >>
  /\ execTries = 0
  /\ compTries = 0
  /\ execFailed = FALSE
  /\ compLog = << >>
  /\ compFailed = FALSE
  /\ saveLog = << >>
  /\ saveFailed = FALSE
  /\ visitLog = << >>

\* the caller turns to another state, of the same session or of the other
NextSession ==
  /\ state' \in LatestStates \ {state}
  /\ caller' = "none"
  /\ loaded' = NotLoaded
  /\ UNCHANGED << plan, enableRollback, origin, steps, persisted, pc, cur,
                  attempt, rbQueue, rbStep, ctxDone, rbCtxDone, stepErr,
                  rbErr, result, fresh, calls, loads, logs, fs, storeLog,
                  proc, flock, git, wctx >>

\* JSONStateRepository.LoadLatest: the pointer file, the session id in the
\* name it holds, then Load of that session
LoadLatest ==
  /\ IF GetLatestLink \notin DOMAIN fs
     THEN /\ loaded' = [called |-> TRUE, ok |-> FALSE, err |-> ErrNoLatest]
          /\ fs' = fs
     ELSE LET sessionID == ExtractSessionID(fs[GetLatestLink])
              locked == WriteFile(fs, GetLockFilename(sessionID), << >>)
          IN  IF sessionID = << >>
              THEN /\ loaded' = [called |-> TRUE, ok |-> FALSE,
                                 err |-> ErrInvalidLatest]
                   /\ fs' = fs
              ELSE \E locks \in BOOLEAN :
                     IF ~locks
                     THEN /\ fs' \in {fs, locked}
                          /\ loaded' = [called |-> TRUE, ok |-> FALSE,
                                        err |-> ErrAcquireSharedLock]
                     ELSE /\ fs' = locked
                          /\ loaded' = ReadState(fs, sessionID)
  /\ caller' = "LoadLatest"
  /\ UNCHANGED << plan, enableRollback, origin, steps, state, persisted, pc,
                  cur, attempt, rbQueue, rbStep, ctxDone, rbCtxDone, stepErr,
                  rbErr, result, fresh, calls, loads, logs, storeLog, proc,
                  flock, git, wctx >>

\* JSONStateRepository.Delete: the exclusive lock, the state file removed (a
\* missing one is no error), the lock file removed or a warning
Delete ==
  /\ \E sessionID \in {state.session_id},
        failure \in {"none", "lock", "remove"}, cleaned \in BOOLEAN :
       LET filename == GetStateFilename(sessionID)
           lockFile == GetLockFilename(sessionID)
           locked == WriteFile(fs, lockFile, << >>)
           quiet == [storeLog EXCEPT !.warned = FALSE]
       IN  CASE failure = "lock" ->
                  /\ fs' = IF cleaned THEN fs ELSE locked
                  /\ result' = ErrAcquireLockDeletion
                  /\ storeLog' = quiet
             [] failure = "remove" ->
                  /\ cleaned
                  /\ filename \in DOMAIN fs
                  /\ fs' = locked
                  /\ result' = ErrDeleteFile
                  /\ storeLog' = quiet
             [] failure = "none" ->
                  /\ fs' = IF cleaned
                           THEN RemoveFile(RemoveFile(locked, filename), lockFile)
                           ELSE RemoveFile(locked, filename)
                  /\ result' = NoErr
                  /\ storeLog' = [quiet EXCEPT !.deleted = TRUE,
                                               !.warned = ~cleaned]
  /\ caller' = "Delete"
  /\ loaded' = NotLoaded
  /\ UNCHANGED << plan, enableRollback, origin, steps, state, persisted, pc,
                  cur, attempt, rbQueue, rbStep, ctxDone, rbCtxDone, stepErr,
                  rbErr, fresh, calls, loads, logs, proc, flock, git, wctx >>

\* JSONStateRepository.Exists: Stat of the state file, no lock
Exists ==
  /\ \E sessionID \in {state.session_id}, stat \in BOOLEAN :
       loaded' = IF stat
                 THEN [called |-> TRUE, ok |-> TRUE, err |-> NoErr,
                       exists |-> GetStateFilename(sessionID) \in DOMAIN fs]
                 ELSE [called |-> TRUE, ok |-> FALSE, err |-> ErrCheckFile,
                       exists |-> FALSE]
  /\ caller' = "Exists"
  /\ UNCHANGED << plan, enableRollback, origin, steps, state, persisted, pc,
                  cur, attempt, rbQueue, rbStep, ctxDone, rbCtxDone, stepErr,
                  rbErr, result, fresh, calls, loads, logs, fs, storeLog,
                  proc, flock, git, wctx >>

\* Save as far as the pointer file: it succeeds, or the state file is written
\* and the pointer is not
SaveToLatest ==
  /\ \E failure \in {"none", "latest"} :
       \E o \in SaveOutcomes(fs, storeLog, state, failure) :
         /\ fs' = o.fs
         /\ result' = o.result
         /\ storeLog' = o.storeLog
  /\ caller' = "Save"
  /\ loaded' = NotLoaded
  /\ UNCHANGED << plan, enableRollback, origin, steps, state, persisted, pc,
                  cur, attempt, rbQueue, rbStep, ctxDone, rbCtxDone, stepErr,
                  rbErr, fresh, calls, loads, logs, proc, flock, git, wctx >>

NextLatest ==
  \/ NextSession
  \/ SaveToLatest
  \/ Load
  \/ LoadLatest
  \/ Delete
  \/ Exists

SpecLatest == InitLatest /\ [][NextLatest]_vars

(* ---------------- processes contending for one session ------------------ *)

\* every variable the calls of the repository by several processes leave alone
untouched ==
  << git, wctx, plan, enableRollback, origin, steps, state, persisted, pc, caller, cur,
     attempt, rbQueue, rbStep, ctxDone, rbCtxDone, stepErr, rbErr, result,
     fresh, calls, loads, logs, loaded, storeLog >>

\* the two processes that call the repository for the same session
Procs == {1, 2}

\* the one session the processes contend for
SharedSession == << "a" >>

\* what process p saves: the first one the running state of the session, the
\* others the failed state, whose error is the text of the step's error
StateOfProc(p) ==
  [session_id |-> SharedSession, version |-> << "a" >>,
   status |-> IF p = 1 THEN "running" ELSE "failed",
   error |-> IF p = 1 THEN << >> ELSE << "0xFF" >>,
   ops |-> << >>]

\* no temp file: Save writes into the state file itself
TempFileInPlace(filename) == filename

\* the state file with .tmp appended
TempFileOf(filename) == << filename, ".tmp" >>

\* a process that is in no call: op is the call it made last, out what that
\* call returned; inside a call, fd is the inode it has the lock file open
\* on, held its lock, ctx whether lockCtx is done, got and touched whether
\* the call got the lock and whether it read, wrote over or removed the
\* state file
IdleProc ==
  [op |-> "none", pc |-> "idle", fd |-> 0, held |-> "none", ctx |-> FALSE,
   out |-> NotLoaded, got |-> FALSE, touched |-> FALSE]

\* a process at the top of acquireLockWithContext
Polling(op) == [IdleProc EXCEPT !.op = op, !.pc = "poll"]

\* a call that returns nil when lockCtx is done before it has the lock
LockErrorNil(op) == NoErr

\* the error a call returns when lockCtx is done before it has the lock
LockErrorOf(op) ==
  CASE op = "Save" -> ErrAcquireLock
    [] op = "Load" -> ErrAcquireSharedLock
    [] op = "Delete" -> ErrAcquireLockDeletion

\* the process died inside the call
ErrCrashed == [kind |-> "process crashed"]

\* a call that returned err and no state
Failed(err) == [called |-> TRUE, ok |-> FALSE, err |-> err]

\* a call that returned nil
Succeeded == [called |-> TRUE, ok |-> TRUE, err |-> NoErr]

\* process p back from its call with what the call returned
Returned(p, out) == [IdleProc EXCEPT !.op = proc[p].op, !.out = out]

\* the lock a call asks for: TryLock for Save and Delete, TryRLock for Load
ModeOf(op) == IF op = "Load" THEN "sh" ELSE "ex"

\* flock(2) on inode ino for process p: an exclusive lock needs no other
\* holder on the inode, a shared one no exclusive holder
Grantable(p, ino, mode) ==
  \A q \in Procs \ {p} :
    (proc[q].held # "none" /\ proc[q].fd = ino) =>
      (mode = "sh" /\ proc[q].held = "sh")

\* an inode number no process has open
FreshIno ==
  CHOOSE i \in 1..(Cardinality(Procs) + 1) : \A q \in Procs : proc[q].fd # i

InitProcs ==
  /\ state = StateOfProc(1)
  /\ fs = EmptyDir
  /\ loaded = NotLoaded
  /\ storeLog = NoStoreLog
  /\ proc = [p \in Procs |-> IdleProc]
  /\ flock = NoLocks
  /\ git = NoGit
  /\ wctx = NoWctx
  /\ persisted = [saved |-> FALSE, state |-> NewRollbackState]
  /\ plan = << >>
  /\ enableRollback = TRUE
  /\ origin = "new"
  /\ steps = << >>
  /\ pc = "idle"
  /\ caller = "none"
  /\ cur = 0
  /\ attempt = 0
  /\ rbQueue = << >>
  /\ rbStep = 0
  /\ ctxDone = FALSE
  /\ rbCtxDone = FALSE
  /\ stepErr = NoErr
  /\ rbErr = NoErr
  /\ result = NoErr
  /\ fresh = FALSE
  /\ calls = 0
  /\ loads = 0
  /\ execLog = << >>
  /\ execTries = 0
  /\ compTries = 0
  /\ execFailed = FALSE
  /\ compLog = << >>
  /\ compFailed = FALSE
  /\ saveLog = << >>
  /\ saveFailed = FALSE
  /\ visitLog = << >>

\* process p calls Save
BeginSave(p) ==
  /\ proc[p].pc = "idle"
  /\ proc' = [proc EXCEPT ![p] = Polling("Save")]
  /\ UNCHANGED << untouched, fs, flock >>

\* process p calls Load
BeginLoad(p) ==
  /\ proc[p].pc = "idle"
  /\ proc' = [proc EXCEPT ![p] = Polling("Load")]
  /\ UNCHANGED << untouched, fs, flock >>

\* process p calls Delete
BeginDelete(p) ==
  /\ proc[p].pc = "idle"
  /\ proc' = [proc EXCEPT ![p] = Polling("Delete")]
  /\ UNCHANGED << untouched, fs, flock >>

\* lockCtx of the call of p is done: LockTimeout has passed or the caller's
\* context was cancelled
LockCtxDone(p) ==
  /\ proc[p].pc \in {"poll", "opened"}
  /\ ~proc[p].ctx
  /\ proc' = [proc EXCEPT ![p].ctx = TRUE]
  /\ UNCHANGED << untouched, fs, flock >>

\* the select of acquireLockWithContext takes ctx.Done: the call returns the
\* lock error
GiveUp(p) ==
  /\ proc[p].pc = "poll"
  /\ proc[p].ctx
  /\ proc' = [proc EXCEPT ![p] = Returned(p, Failed(LockErrorOf(proc[p].op)))]
  /\ UNCHANGED << untouched, fs, flock >>

\* the select takes the tick: TryLock opens the lock file, making it when the
\* name leads nowhere
OpenLockFile(p) ==
  /\ proc[p].pc = "poll"
  /\ LET ino == IF flock.ino = 0 THEN FreshIno ELSE flock.ino
     IN  /\ flock' = [flock EXCEPT !.ino = ino]
         /\ proc' = [proc EXCEPT ![p].pc = "opened", ![p].fd = ino]
  /\ UNCHANGED << untouched, fs >>

\* TryLock asks for the lock on the inode it opened: granted, or the file is
\* closed and the loop goes on
TryLock(p) ==
  /\ proc[p].pc = "opened"
  /\ proc' = IF Grantable(p, proc[p].fd, ModeOf(proc[p].op))
             THEN [proc EXCEPT ![p].pc = "locked",
                               ![p].held = ModeOf(proc[p].op),
                               ![p].got = TRUE]
             ELSE [proc EXCEPT ![p].pc = "poll", ![p].fd = 0]
  /\ UNCHANGED << untouched, fs, flock >>

\* Save, afero.WriteFile: the temp file is opened and truncated
CreateTemp(p) ==
  /\ proc[p].pc = "locked"
  /\ proc[p].op = "Save"
  /\ fs' = WriteFile(fs, TempFileOf(GetStateFilename(SharedSession)), Truncated)
  /\ proc' = [proc EXCEPT ![p].pc = "temp"]
  /\ UNCHANGED << untouched, flock >>

\* Save, afero.WriteFile: the wrapper is written and the temp file closed (the
\* bytes are lost when the name was taken away meanwhile)
WriteTemp(p) ==
  /\ proc[p].pc = "temp"
  /\ LET tempFile == TempFileOf(GetStateFilename(SharedSession))
     IN  fs' = IF tempFile \in DOMAIN fs
               THEN WriteFile(fs, tempFile, WrapperOf(StateOfProc(p)))
               ELSE fs
  /\ proc' = [proc EXCEPT ![p].pc = "written"]
  /\ UNCHANGED << untouched, flock >>

\* Save, Rename of the temp file over the state file; when it fails the call
\* returns the rename error
Rename(p) ==
  /\ proc[p].pc = "written"
  /\ LET filename == GetStateFilename(SharedSession)
         tempFile == TempFileOf(filename)
     IN  IF tempFile \in DOMAIN fs
         THEN /\ fs' = RemoveFile(WriteFile(fs, filename, fs[tempFile]),
                                  tempFile)
              /\ proc' = [proc EXCEPT ![p].pc = "renamed", ![p].touched = TRUE]
         ELSE /\ fs' = fs
              /\ proc' = [proc EXCEPT ![p].pc = "unlock",
                                      ![p].out = Failed(ErrRename)]
  /\ UNCHANGED << untouched, flock >>

\* Save, updateLatestLink
UpdateLatestLink(p) ==
  /\ proc[p].pc = "renamed"
  /\ fs' = WriteFile(fs, GetLatestLink, GetStateFilename(SharedSession))
  /\ proc' = [proc EXCEPT ![p].pc = "unlock", ![p].out = Succeeded]
  /\ UNCHANGED << untouched, flock >>

\* Load, from ReadFile to the checksum
ReadStateFile(p) ==
  /\ proc[p].pc = "locked"
  /\ proc[p].op = "Load"
  /\ proc' = [proc EXCEPT ![p].pc = "unlock",
                          ![p].out = ReadState(fs, SharedSession),
                          ![p].touched = TRUE]
  /\ UNCHANGED << untouched, fs, flock >>

\* Delete, Remove of the state file
RemoveStateFile(p) ==
  /\ proc[p].pc = "locked"
  /\ proc[p].op = "Delete"
  /\ fs' = RemoveFile(fs, GetStateFilename(SharedSession))
  /\ proc' = [proc EXCEPT ![p].pc = "removed", ![p].touched = TRUE]
  /\ UNCHANGED << untouched, flock >>

\* Delete, Remove of the lock file: the name goes, the inode stays for those
\* that have it open
RemoveLockFile(p) ==
  /\ proc[p].pc = "removed"
  /\ flock' = [flock EXCEPT !.ino = 0]
  /\ proc' = [proc EXCEPT ![p].pc = "unlock", ![p].out = Succeeded]
  /\ UNCHANGED << untouched, fs >>

\* a return without the deferred lock.Unlock: the lock stays on the open file
UnlockKeepsLock(p) ==
  /\ proc[p].pc = "unlock"
  /\ proc' = [proc EXCEPT ![p] = [Returned(p, proc[p].out) EXCEPT
                                    !.held = proc[p].held,
                                    !.fd = proc[p].fd]]
  /\ UNCHANGED << untouched, fs, flock >>

\* the deferred lock.Unlock: the lock is released and the lock file closed
Unlock(p) ==
  /\ proc[p].pc = "unlock"
  /\ proc' = [proc EXCEPT ![p] = Returned(p, proc[p].out)]
  /\ UNCHANGED << untouched, fs, flock >>

\* the process dies inside a call: the kernel closes its files and drops its
\* lock, the files it wrote stay as they are
Crash(p) ==
  /\ proc[p].pc # "idle"
  /\ proc' = [proc EXCEPT ![p] = Returned(p, Failed(ErrCrashed))]
  /\ UNCHANGED << untouched, fs, flock >>

\* Save, Load and Delete of one session by several processes
NextProcs ==
  \/ \E p \in Procs : BeginSave(p)
  \/ \E p \in Procs : BeginLoad(p)
  \/ \E p \in Procs : BeginDelete(p)
  \/ \E p \in Procs : LockCtxDone(p)
  \/ \E p \in Procs : GiveUp(p)
  \/ \E p \in Procs : OpenLockFile(p)
  \/ \E p \in Procs : TryLock(p)
  \/ \E p \in Procs : CreateTemp(p)
  \/ \E p \in Procs : WriteTemp(p)
  \/ \E p \in Procs : Rename(p)
  \/ \E p \in Procs : UpdateLatestLink(p)
  \/ \E p \in Procs : ReadStateFile(p)
  \/ \E p \in Procs : RemoveStateFile(p)
  \/ \E p \in Procs : RemoveLockFile(p)
  \/ \E p \in Procs : Unlock(p)

SpecProcs == InitProcs /\ [][NextProcs]_vars

\* the same with what the Go runtime and the kernel see to: the deadline of
\* lockCtx (LockTimeout) arrives, a select whose ctx.Done case stays ready
\* takes it in the end, a TryLock that began returns
SpecProcsFair ==
  /\ SpecProcs
  /\ \A p \in Procs :
       /\ WF_vars(LockCtxDone(p))
       /\ SF_vars(GiveUp(p))
       /\ WF_vars(TryLock(p))

\* the same with callers that keep polling: the ticker of
\* acquireLockWithContext fires again and a TryLock that began returns
SpecProcsPolling ==
  /\ SpecProcs
  /\ \A p \in Procs :
       /\ WF_vars(OpenLockFile(p))
       /\ WF_vars(TryLock(p))

\* Save and Load of one session by several processes that can die
NextSaves ==
  \/ \E p \in Procs : BeginSave(p)
  \/ \E p \in Procs : BeginLoad(p)
  \/ \E p \in Procs : LockCtxDone(p)
  \/ \E p \in Procs : GiveUp(p)
  \/ \E p \in Procs : OpenLockFile(p)
  \/ \E p \in Procs : TryLock(p)
  \/ \E p \in Procs : CreateTemp(p)
  \/ \E p \in Procs : WriteTemp(p)
  \/ \E p \in Procs : Rename(p)
  \/ \E p \in Procs : UpdateLatestLink(p)
  \/ \E p \in Procs : ReadStateFile(p)
  \/ \E p \in Procs : Unlock(p)
  \/ \E p \in Procs : Crash(p)

SpecSaves == InitProcs /\ [][NextSaves]_vars

(* ------------------ a state file changed behind the back ----------------- *)

\* a schema version other than the current one
OtherSchemaVersion == "0.9.0"

\* the texts a JSON string of at most one unit can hold in the file: the
\* letter, U+FFFD raw or as its escape, a byte that is not valid UTF-8
JSONTexts == { << >>, << "a" >>, << "U+FFFD" >>, << "\\ufffd" >>, << "0xFF" >> }

\* the workflow statuses json.Unmarshal accepts (any string)
StatusTexts == {"pending", "running", "completed", "failed", "rolled_back"}

\* what a change of the payload of wrapper w, with the metadata left alone,
\* can make of it: another status, another error text, the last record lost,
\* other white space, a file cut short
PayloadChanges(w) ==
  ({ [w EXCEPT !.state.status = t] : t \in StatusTexts }
     \cup { [w EXCEPT !.state.error.text = t] : t \in JSONTexts }
     \cup { [w EXCEPT !.state.operations = SubSeq(@, 1, Len(@) - 1)] :
              x \in { y \in {0} : Len(w.state.operations) > 0 } }
     \cup { [w EXCEPT !.layout = "\t"], Truncated })
    \ { w }

\* a state file written by a release with another schema version
SchemaChange(w) == [w EXCEPT !.metadata.schema_version = OtherSchemaVersion]

\* something other than the repository rewrites the state file of the session
Corrupt ==
  /\ \E name \in {GetStateFilename(state.session_id)} \cap DOMAIN fs :
       /\ IsWrapper(fs[name])
       /\ fs[name] = storeLog.written[name]
       /\ \E w \in PayloadChanges(fs[name]) \cup {SchemaChange(fs[name])} :
            fs' = WriteFile(fs, name, w)
  /\ caller' = "Corrupt"
  /\ loaded' = NotLoaded
  /\ UNCHANGED << plan, enableRollback, origin, steps, state, persisted, pc,
                  cur, attempt, rbQueue, rbStep, ctxDone, rbCtxDone, stepErr,
                  rbErr, result, fresh, calls, loads, logs, storeLog, proc,
                  flock, git, wctx >>

NextCorrupt ==
  \/ Save
  \/ Load
  \/ Corrupt

SpecCorrupt == InitStore /\ [][NextCorrupt]_vars

(* ------------------ CompensatingActions.DeleteBranch --------------------- *)

\* const maxRetries of deleteRemoteBranchIfPushed
maxRetries == 3

ErrNoBranchName == [kind |-> "branch_name not found in rollback data"]

ErrCannotSwitch == [kind |-> "cannot switch from branch"]

ErrDeleteLocal == [kind |-> "failed to delete local branch"]

ErrDeleteRemote == [kind |-> "failed to delete remote branch"]

ErrCheckout == [kind |-> "checkout failed"]

\* rollbackData[key].(string) and rollbackData[key].(bool): the key is there
\* and its value has the Go type
IsString(rollbackData, key) ==
  key \in DOMAIN rollbackData /\ rollbackData[key].go = "string"

IsBool(rollbackData, key) ==
  key \in DOMAIN rollbackData /\ rollbackData[key].go = "bool"

\* wasCreatedInSession that takes a missing flag for true
WasCreatedInSessionByDefault(rollbackData) ==
  IF IsBool(rollbackData, "created_in_session")
  THEN rollbackData["created_in_session"].v
  ELSE TRUE

\* CompensatingActions.wasCreatedInSession
WasCreatedInSession(rollbackData) ==
  IF IsBool(rollbackData, "created_in_session")
  THEN rollbackData["created_in_session"].v
  ELSE FALSE

\* the pushed flag as deleteRemoteBranchIfPushed reads it
WasPushed(rollbackData) ==
  IF IsBool(rollbackData, "pushed") THEN rollbackData["pushed"].v ELSE FALSE

\* the answers the git calls of one compensation get: whether HEAD can be
\* read, whether a checkout works, whether the branches can be listed, how
\* the local delete ends, how many remote deletes fail before one ends, and
\* how that one ends
GitAnswers ==
  [head : BOOLEAN, checkout : BOOLEAN, listLocal : BOOLEAN,
   deleteLocal : {"ok", "not found", "error"}, listRemote : BOOLEAN,
   remoteFails : 0..maxRetries, deleteRemote : {"ok", "not found"}]

\* working copy g after a call of the git repository, with the call, its
\* argument and its answer written down
Called(g, method, arg, answer) ==
  [g EXCEPT !.calls = Append(@, << method, arg, answer >>)]

\* what a part of the compensation hands on: the working copy and the error
Went(g, err) == [git |-> g, err |-> err]

\* gitRepository.CheckoutBranch: works on a branch the working copy has
CheckoutBranch(g, name, env) ==
  IF env.checkout /\ name \in g.local
  THEN Went([Called(g, "CheckoutBranch", name, "ok") EXCEPT !.current = name],
            NoErr)
  ELSE Went(Called(g, "CheckoutBranch", name, "error"), ErrCheckout)

\* CompensatingActions.tryCheckoutFallbackBranch: main, then master
TryCheckoutFallbackBranch(g, env) ==
  LET main == CheckoutBranch(g, "main", env)
      master == CheckoutBranch(main.git, "master", env)
  IN  IF main.err = NoErr THEN main
      ELSE IF master.err = NoErr THEN master
      ELSE Went(master.git, ErrCannotSwitch)

\* CompensatingActions.switchFromBranchIfNeeded
SwitchFromBranchIfNeeded(g, branchName, rollbackData, env) ==
  LET asked == Called(g, "GetCurrentBranch", "",
                      IF env.head THEN "ok" ELSE "error")
      original == CheckoutBranch(asked, rollbackData["original_branch"].v, env)
  IN  IF ~env.head \/ g.current # branchName THEN Went(asked, NoErr)
      ELSE IF ~IsString(rollbackData, "original_branch")
           THEN TryCheckoutFallbackBranch(asked, env)
           ELSE IF original.err = NoErr THEN original
                ELSE TryCheckoutFallbackBranch(original.git, env)

\* CompensatingActions.deleteLocalBranchIfExists
DeleteLocalBranchIfExists(g, branchName, env) ==
  LET listed == Called(g, "ListLocalBranches", "",
                       IF env.listLocal THEN "ok" ELSE "error")
      asked == Called(listed, "DeleteBranch", branchName, env.deleteLocal)
      gone == [asked EXCEPT !.local = @ \ {branchName}]
  IN  IF ~env.listLocal \/ branchName \notin g.local THEN Went(listed, NoErr)
      ELSE CASE env.deleteLocal = "ok" -> Went(gone, NoErr)
             [] env.deleteLocal = "not found" -> Went(gone, NoErr)
             [] env.deleteLocal = "error" -> Went(asked, ErrDeleteLocal)

\* the retry loop of deleteRemoteBranchIfPushed from attempt on
RECURSIVE DeleteRemoteAttempts(_, _, _, _)
DeleteRemoteAttempts(g, branchName, tries, env) ==
  LET fails == tries <= env.remoteFails
      asked == Called(g, "DeleteRemoteBranch", branchName,
                      IF fails THEN "error" ELSE env.deleteRemote)
  IN  IF ~fails THEN Went([asked EXCEPT !.remote = @ \ {branchName}], NoErr)
      ELSE IF tries = maxRetries THEN Went(asked, ErrDeleteRemote)
      ELSE DeleteRemoteAttempts(asked, branchName, tries + 1, env)

\* CompensatingActions.deleteRemoteBranchIfPushed
DeleteRemoteBranchIfPushed(g, branchName, rollbackData, env) ==
  LET listed == Called(g, "ListRemoteBranches", "",
                       IF env.listRemote THEN "ok" ELSE "error")
  IN  IF ~WasPushed(rollbackData) THEN Went(g, NoErr)
      ELSE IF ~env.listRemote \/ branchName \notin g.remote
           THEN Went(listed, NoErr)
           ELSE DeleteRemoteAttempts(listed, branchName, 1, env)

\* CompensatingActions.DeleteBranch
DeleteBranch(g, rollbackData, env) ==
  LET branchName == rollbackData["branch_name"].v
      switched == SwitchFromBranchIfNeeded(g, branchName, rollbackData, env)
      deleted == DeleteLocalBranchIfExists(switched.git, branchName, env)
  IN  IF ~IsString(rollbackData, "branch_name") THEN Went(g, ErrNoBranchName)
      ELSE IF ~WasCreatedInSession(rollbackData) THEN Went(g, NoErr)
      ELSE IF switched.err # NoErr THEN switched
      ELSE IF deleted.err # NoErr THEN deleted
      ELSE DeleteRemoteBranchIfPushed(deleted.git, branchName, rollbackData, env)

\* the working copies a compensation can meet: on the original branch or on
\* the release branch, the release branch there or not, pushed or not
WorkingCopies ==
  { [NoGit EXCEPT !.current = c, !.local = {OriginalBranch} \cup l,
                   !.remote = {OriginalBranch} \cup r] :
      c \in {OriginalBranch, ReleaseBranch},
      l \in SUBSET {ReleaseBranch}, r \in SUBSET {ReleaseBranch} }
    \ { [NoGit EXCEPT !.current = ReleaseBranch,
                     !.remote = {OriginalBranch} \cup r] :
          r \in SUBSET {ReleaseBranch} }

\* the maps with the keys in keys taken from a map with all the keys
Restrict(all, keys) == [k \in keys |-> all[k]]

\* the rollback data DeleteBranch can be handed: each key there or not, each
\* flag true, false or a string
DeleteBranchData ==
  { Restrict([branch_name |-> GoString(ReleaseBranch),
              original_branch |-> GoString(OriginalBranch),
              created_in_session |-> c, pushed |-> p], keys) :
      c \in {GoBool(TRUE), GoBool(FALSE), GoString("true")},
      p \in {GoBool(TRUE), GoBool(FALSE), GoString("true")},
      keys \in SUBSET {"branch_name", "original_branch", "created_in_session",
                       "pushed"} }

(* ------- CompensatingActions.RestoreFiles, ResetCommit, ClosePullRequest ---- *)

ErrGetHead == [kind |-> "failed to get current HEAD"]

ErrResetCommit == [kind |-> "failed to reset commit"]

ErrCheckPRStatus == [kind |-> "failed to check PR status"]

ErrClosePR == [kind |-> "failed to close PR"]

\* strings.HasPrefix on strings written as sequences
HasPrefix(s, prefix) ==
  Len(prefix) <= Len(s) /\ SubSeq(s, 1, Len(prefix)) = prefix

\* the first parent of a commit, where it has one
ParentOf(commit) == IF commit = ReleaseCommit THEN ParentCommit ELSE commit

\* the files RestoreFiles goes through: a []string as it is, a []any with
\* the empty name for what is not a string, nothing for anything else
ModifiedFiles(rollbackData) ==
  LET given == rollbackData["modified_files"]
  IN  IF "modified_files" \notin DOMAIN rollbackData THEN << >>
      ELSE CASE given.go = "[]string" -> given.v
             [] given.go = "[]interface {}" ->
                  [i \in 1..Len(given.v) |->
                     IF given.v[i].go = "string" THEN given.v[i].v ELSE ""]
             [] OTHER -> << >>

\* the answers the git calls of one RestoreFiles get: the files whose status
\* cannot be read and how a restore ends
RestoreAnswers(files) ==
  [unread : SUBSET { files[i] : i \in 1..Len(files) },
   restore : {"ok", "not exist", "error"}]

\* the loop of RestoreFiles: fileHasChanges, then RestoreFile, whose error
\* is printed at most
RECURSIVE RestoreEach(_, _, _)
RestoreEach(g, files, env) ==
  LET file == Head(files)
      asked == Called(g, "GetFileStatus", file,
                      IF file \in env.unread THEN "error" ELSE "ok")
      fileHasChanges == file \notin env.unread /\ file \in g.dirty
      tried == Called(asked, "RestoreFile", file, env.restore)
      restored == IF env.restore = "ok"
                  THEN [tried EXCEPT !.dirty = @ \ {file}]
                  ELSE tried
  IN  IF files = << >> THEN g
      ELSE RestoreEach(IF fileHasChanges THEN restored ELSE asked,
                       Tail(files), env)

\* CompensatingActions.RestoreFiles
RestoreFiles(g, rollbackData, env) ==
  Went(RestoreEach(g, ModifiedFiles(rollbackData), env), NoErr)

\* the answers the git calls of one ResetCommit get
ResetAnswers ==
  [head : BOOLEAN,
   reset : {"ok", "unknown revision", "does not have a parent", "error"}]

\* CompensatingActions.ResetCommit
ResetCommit(g, rollbackData, env) ==
  LET commitSHA == rollbackData["commit_sha"].v
      asked == Called(g, "GetHeadCommit", "",
                      IF env.head THEN "ok" ELSE "error")
      reset == Called(asked, "ResetHard", commitSHA \o << "~1" >>, env.reset)
  IN  IF \/ ~IsString(rollbackData, "commit_sha")
         \/ commitSHA = << >>
         \/ commitSHA = HeadRef
      THEN Went(g, NoErr)
      ELSE IF ~env.head THEN Went(asked, ErrGetHead)
      ELSE IF ~HasPrefix(g.tip, commitSHA) THEN Went(asked, NoErr)
      ELSE CASE env.reset = "ok" ->
                  Went([reset EXCEPT !.tip = ParentOf(g.tip), !.dirty = {}],
                       NoErr)
             [] env.reset \in {"unknown revision", "does not have a parent"} ->
                  Went(reset, NoErr)
             [] OTHER -> Went(reset, ErrResetCommit)

\* extractPRNumber: an int or a float64, 0 for anything else
ExtractPRNumber(rollbackData) ==
  IF /\ "pr_number" \in DOMAIN rollbackData
     /\ rollbackData["pr_number"].go \in {"int", "float64"}
  THEN rollbackData["pr_number"].v.n
  ELSE 0

\* the answers the GitHub calls of one ClosePullRequest get
PRAnswers ==
  [status : BOOLEAN, comment : BOOLEAN,
   close : {"ok", "already closed", "error"}]

\* ClosePullRequest that returns the error of a comment that could not be
\* posted
ClosePullRequestCommentRequired(g, rollbackData, env) ==
  LET prNumber == ExtractPRNumber(rollbackData)
      asked == Called(g, "GetPRStatus", prNumber,
                      IF ~env.status THEN "error"
                      ELSE IF g.pr = "none" THEN "not found" ELSE "ok")
      commented == Called(asked, "AddComment", prNumber,
                          IF env.comment THEN "ok" ELSE "error")
      closing == Called(commented, "ClosePR", prNumber, env.close)
  IN  IF prNumber = 0 THEN Went(g, NoErr)
      ELSE IF ~env.status THEN Went(asked, ErrCheckPRStatus)
      ELSE IF g.pr = "none" \/ g.pr = "closed" THEN Went(asked, NoErr)
      ELSE IF ~env.comment THEN Went(commented, ErrClosePR)
      ELSE CASE env.close = "ok" ->
                  Went([closing EXCEPT
                          !.pr = IF @ = "open" THEN "closed" ELSE @],
                       NoErr)
             [] env.close = "already closed" -> Went(closing, NoErr)
             [] OTHER -> Went(closing, ErrClosePR)

\* CompensatingActions.ClosePullRequest
ClosePullRequest(g, rollbackData, env) ==
  LET prNumber == ExtractPRNumber(rollbackData)
      asked == Called(g, "GetPRStatus", prNumber,
                      IF ~env.status THEN "error"
                      ELSE IF g.pr = "none" THEN "not found" ELSE "ok")
      commented == Called(asked, "AddComment", prNumber,
                          IF env.comment THEN "ok" ELSE "error")
      closing == Called(commented, "ClosePR", prNumber, env.close)
  IN  IF prNumber = 0 THEN Went(g, NoErr)
      ELSE IF ~env.status THEN Went(asked, ErrCheckPRStatus)
      ELSE IF g.pr = "none" \/ g.pr = "closed" THEN Went(asked, NoErr)
      ELSE CASE env.close = "ok" ->
                  Went([closing EXCEPT
                          !.pr = IF @ = "open" THEN "closed" ELSE @],
                       NoErr)
             [] env.close = "already closed" -> Went(closing, NoErr)
             [] OTHER -> Went(closing, ErrClosePR)

\* CompensatingActions.NoOp
NoOp(g) == Went(g, NoErr)

\* the compensation registered for the steps of an operation type, with
\* every way its calls can be answered
Compensations(opType, g, rollbackData) ==
  CASE opType \in {OperationTypeNames[3], OperationTypeNames[8]} ->
         { DeleteBranch(g, rollbackData, env) : env \in GitAnswers }
    [] opType \in {OperationTypeNames[5], OperationTypeNames[6]} ->
         { RestoreFiles(g, rollbackData, env) :
             env \in RestoreAnswers(ModifiedFiles(rollbackData)) }
    [] opType = OperationTypeNames[7] ->
         { ResetCommit(g, rollbackData, env) : env \in ResetAnswers }
    [] opType = OperationTypeNames[9] ->
         { ClosePullRequest(g, rollbackData, env) : env \in PRAnswers }
    [] OTHER -> { NoOp(g) }

(* ------------------------ one record rolled back ------------------------- *)

\* the working copy on the release branch, created and pushed
OnRelease ==
  [NoGit EXCEPT !.current = ReleaseBranch,
                !.local = {OriginalBranch, ReleaseBranch},
                !.remote = {OriginalBranch, ReleaseBranch}]

\* the rollback data RestoreFiles can be handed: the list as the step wrote
\* it, as it is after a round through JSON, with an element that is no
\* string, of another type, or not there
RestoreFilesData ==
  { [modified_files |-> GoStringSlice(<< "package.json", "package-lock.json" >>)],
    [modified_files |-> GoAnySlice(<< GoString("package.json"),
                                      GoString("package-lock.json") >>)],
    [modified_files |-> GoAnySlice(<< GoString("package.json"),
                                      GoBool(TRUE) >>)],
    [modified_files |-> GoString("package.json")],
    << >> }

\* the rollback data ResetCommit can be handed: a hash, whole or
\* abbreviated, the name HEAD, the empty string, no string, or nothing
ResetCommitData ==
  { [commit_sha |-> GoString(ReleaseCommit)],
    [commit_sha |-> GoString(SubSeq(ReleaseCommit, 1, 1))],
    [commit_sha |-> GoString(HeadRef)],
    [commit_sha |-> GoString(<< >>)],
    [commit_sha |-> GoBool(TRUE)],
    << >> }

\* the rollback data ClosePullRequest can be handed: a number as the step
\* wrote it or as it is after a round through JSON, zero, no number, nothing
ClosePullRequestData ==
  { [pr_number |-> GoInt(IntegerValue(FALSE, 7))],
    [pr_number |-> GoFloat64(IntegerValue(FALSE, 7))],
    [pr_number |-> GoInt(IntegerValue(FALSE, 0))],
    [pr_number |-> GoString("7")],
    << >> }

\* a completed record of each compensated operation type with the data and
\* the world its compensation can meet
CompensationCases ==
  { [type |-> OperationTypeNames[3], data |-> d, git |-> g] :
      d \in DeleteBranchData, g \in WorkingCopies }
  \cup { [type |-> OperationTypeNames[5], data |-> d,
          git |-> [OnRelease EXCEPT !.dirty = f]] :
           d \in RestoreFilesData,
           f \in SUBSET {"package.json", "package-lock.json"} }
  \cup { [type |-> OperationTypeNames[7], data |-> d,
          git |-> [OnRelease EXCEPT !.tip = t]] :
           d \in ResetCommitData, t \in {ParentCommit, ReleaseCommit} }
  \cup { [type |-> OperationTypeNames[9], data |-> d,
          git |-> [OnRelease EXCEPT !.pr = s]] :
           d \in ClosePullRequestData,
           s \in {"none", "open", "closed", "merged"} }

\* a state whose only record is a completed create_branch with the data
StateWith(rollbackData) ==
  [NewRollbackState EXCEPT
     !.status = "failed",
     !.ops = << [type |-> OperationTypeNames[3], status |-> "completed",
                 data |-> rollbackData, error |-> NoErr] >>]

\* rollback about to compensate the one record of a state
InitCompensate ==
  /\ \E c \in CompensationCases :
       LET st == [StateWith(c.data) EXCEPT !.ops[1].type = c.type]
       IN  /\ state = st
           /\ rbQueue = GetCompletedOperations(st.ops)
           /\ git = c.git
  /\ wctx = NoWctx
  /\ pc = "rollback"
  /\ caller = "Rollback"
  /\ fs = EmptyDir
  /\ loaded = NotLoaded
  /\ storeLog = NoStoreLog
  /\ proc = NoProcs
  /\ flock = NoLocks
  /\ persisted = [saved |-> FALSE, state |-> NewRollbackState]
  /\ plan = << >>
  /\ enableRollback = TRUE
  /\ origin = "new"
  /\ steps = << >>
  /\ cur = 0
  /\ attempt = 0
  /\ rbStep = 0
  /\ ctxDone = FALSE
  /\ rbCtxDone = FALSE
  /\ stepErr = NoErr
  /\ rbErr = NoErr
  /\ result = NoErr
  /\ fresh = FALSE
  /\ calls = 0
  /\ loads = 0
  /\ execLog = << >>
  /\ execTries = 0
  /\ compTries = 0
  /\ execFailed = FALSE
  /\ compLog = << >>
  /\ compFailed = FALSE
  /\ saveLog = << >>
  /\ saveFailed = FALSE
  /\ visitLog = << >>

\* one turn of retry.Do in executeCompensation for the record rollback is at:
\* the compensation of the step of its type with its rollback data;
\* compFailed tells that it failed or that one of its git calls did
CompensateRecord ==
  /\ pc = "rollback"
  /\ rbQueue # << >>
  /\ \E ran \in Compensations(Head(rbQueue).type,
                               [git EXCEPT !.calls = << >>],
                               Head(rbQueue).data) :
       LET op == Head(rbQueue)
       IN  /\ git' = ran.git
           /\ compLog' = IF attempt = 0
                         THEN Append(compLog, [type |-> op.type,
                                               data |-> op.data])
                         ELSE compLog
           /\ compFailed' = (\/ compFailed
                             \/ ran.err # NoErr
                             \/ \E i \in 1..Len(ran.git.calls) :
                                  ran.git.calls[i][3] # "ok")
           /\ IF ran.err = NoErr
              THEN /\ rbQueue' = Tail(rbQueue)
                   /\ attempt' = 0
                   /\ UNCHANGED << pc, rbErr >>
              ELSE IF RetryStops(attempt)
                   THEN /\ pc' = "done"
                        /\ rbErr' = ErrRollbackFailedFor(op.type, ran.err)
                        /\ UNCHANGED << rbQueue, attempt >>
                   ELSE /\ attempt' = attempt + 1
                        /\ UNCHANGED << rbQueue, pc, rbErr >>
  /\ UNCHANGED << plan, enableRollback, origin, steps, state, persisted,
                  caller, cur, rbStep, ctxDone, rbCtxDone, stepErr, result,
                  fresh, calls, loads, execLog, execTries, compTries,
                  execFailed, saveLog, saveFailed, visitLog, fs, loaded,
                  storeLog, proc, flock, wctx >>

\* rollback after its loop: the workflow is rolled back
RolledBack ==
  /\ pc = "rollback"
  /\ rbQueue = << >>
  /\ state' = [state EXCEPT !.status = "rolled_back"]
  /\ pc' = "done"
  /\ rbErr' = NoErr
  /\ UNCHANGED << plan, enableRollback, origin, steps, persisted, caller, cur,
                  attempt, rbQueue, rbStep, ctxDone, rbCtxDone, stepErr,
                  result, fresh, calls, loads, logs, fs, loaded, storeLog,
                  proc, flock, git, wctx >>

\* SagaExecutor.Rollback called once more on the state the last call left:
\* the completed records are compensated again with the same rollback data
RollbackAgain ==
  /\ pc = "done"
  /\ caller = "Rollback"
  /\ calls < MaxCalls
  /\ calls' = calls + 1
  /\ rbQueue' = GetCompletedOperations(state.ops)
  /\ pc' = "rollback"
  /\ attempt' = 0
  /\ rbErr' = NoErr
  /\ UNCHANGED << plan, enableRollback, origin, steps, state, persisted,
                  caller, cur, rbStep, ctxDone, rbCtxDone, stepErr, result,
                  fresh, loads, logs, fs, loaded, storeLog, proc, flock, git,
                  wctx >>

NextCompensate ==
  \/ CompensateRecord
  \/ RolledBack
  \/ RollbackAgain

SpecCompensate == InitCompensate /\ [][NextCompensate]_vars

(* -------------------- the release workflow and its rollback --------------- *)

ErrListLocal == [kind |-> "failed to list local branches"]

ErrCreateBranch == [kind |-> "failed to create release branch"]

ErrCheckoutRelease == [kind |-> "failed to checkout release branch"]

ErrPushBranch == [kind |-> "failed to push branch"]

\* the answers the git calls of one step get
StepAnswers ==
  [listLocal : BOOLEAN, create : BOOLEAN, push : BOOLEAN, checkout : BOOLEAN]

\* what the execute function of a step hands back: the working copy, the
\* workflow context, the rollback data and the error
Stepped(g, w, data, err) == [git |-> g, wctx |-> w, data |-> data, err |-> err]

\* CreateReleaseBranchUseCase.Execute: the branch is created and pushed
CreateReleaseBranch(g, branchName, env) ==
  LET created == [Called(g, "CreateBranch", branchName, "ok")
                    EXCEPT !.local = @ \cup {branchName}]
      pushed == [Called(created, "PushBranch", branchName, "ok")
                   EXCEPT !.remote = @ \cup {branchName}]
  IN  IF ~env.create \/ branchName \in g.local
      THEN Went(Called(g, "CreateBranch", branchName, "error"), ErrCreateBranch)
      ELSE IF ~env.push
           THEN Went(Called(created, "PushBranch", branchName, "error"),
                     ErrCreateBranch)
           ELSE Went(pushed, NoErr)

\* the execute function of the Create Release Branch step
CreateBranchStep(g, w, env) ==
  LET named == [w EXCEPT !.branchName = ReleaseBranch]
      listed == Called(g, "ListLocalBranches", "",
                       IF env.listLocal THEN "ok" ELSE "error")
      branchExists == ReleaseBranch \in g.local
      marked == [named EXCEPT !.createdInSession = ~branchExists]
      made == IF branchExists THEN Went(listed, NoErr)
              ELSE CreateReleaseBranch(listed, ReleaseBranch, env)
      out == CheckoutBranch(made.git, ReleaseBranch, env)
  IN  IF ~env.listLocal THEN Stepped(listed, named, << >>, ErrListLocal)
      ELSE IF made.err # NoErr THEN Stepped(made.git, marked, << >>, made.err)
      ELSE IF out.err # NoErr
           THEN Stepped(out.git, marked, << >>, ErrCheckoutRelease)
           ELSE Stepped(out.git, marked,
                        [branch_name |-> GoString(ReleaseBranch),
                         original_branch |-> GoString(OriginalBranch),
                         created_in_session |-> GoBool(~branchExists)],
                        NoErr)

\* the execute function of the Push Branch step: PushBranch for a branch
\* of this session, PushBranchForce for one that was there
PushBranchStep(g, w, env) ==
  LET method == IF w.createdInSession THEN "PushBranch" ELSE "PushBranchForce"
  IN  IF ~env.push
      THEN Stepped(Called(g, method, w.branchName, "error"), w, << >>,
                   ErrPushBranch)
      ELSE Stepped([Called(g, method, w.branchName, "ok")
                      EXCEPT !.remote = @ \cup {w.branchName}],
                   w,
                   [pushed |-> GoBool(TRUE),
                    branch_name |-> GoString(w.branchName)],
                   NoErr)

\* the execute function of the Update Package Versions step
UpdatePackagesStep(g, w, succeeds) ==
  LET files == << "package.json", "package-lock.json" >>
  IN  IF ~succeeds THEN Stepped(g, w, << >>, ExecErr(OperationTypeNames[5]))
      ELSE Stepped([g EXCEPT !.dirty = @ \cup {files[1], files[2]}], w,
                   [modified_files |-> GoStringSlice(files)], NoErr)

\* the execute function of the Generate Changelog step
GenerateChangelogStep(g, w, succeeds) ==
  LET files == << "CHANGELOG.md", "RELEASE_NOTES.md" >>
  IN  IF ~succeeds THEN Stepped(g, w, << >>, ExecErr(OperationTypeNames[6]))
      ELSE Stepped([g EXCEPT !.dirty = @ \cup {files[1], files[2]}], w,
                   [modified_files |-> GoStringSlice(files),
                    changelog |-> GoString("changelog")],
                   NoErr)

\* the execute function of the Commit Changes step: commitChanges adds the
\* changelog and the package files and commits them; the rollback data
\* names the commit HEAD
CommitChangesStep(g, w, succeeds) ==
  LET added == {"CHANGELOG.md", "package.json", "package-lock.json"}
  IN  IF ~succeeds THEN Stepped(g, w, << >>, ExecErr(OperationTypeNames[7]))
      ELSE Stepped([g EXCEPT !.tip = ReleaseCommit, !.dirty = @ \ added], w,
                   [commit_sha |-> GoString(HeadRef)], NoErr)

\* the execute function of the Create Pull Request step: the number it
\* writes down is the placeholder 0
CreatePRStep(g, w, succeeds) ==
  IF ~succeeds THEN Stepped(g, w, << >>, ExecErr(OperationTypeNames[9]))
  ELSE Stepped([g EXCEPT !.pr = "open"], w,
               [pr_number |-> GoInt(IntegerValue(FALSE, 0))], NoErr)

\* the execute function of a step that touches no branch
OtherStep(g, w, opType, succeeds) ==
  IF succeeds THEN Stepped(g, w, << >>, NoErr)
  ELSE Stepped(g, w, << >>, ExecErr(opType))

\* a new run of the workflow: a record for each step, the working copy on
\* the original branch, the release branch there already or not
InitRelease ==
  /\ state = [NewRollbackState EXCEPT
                !.status = "running",
                !.ops = [i \in 1..Len(WorkflowStepTypes) |->
                           [type |-> WorkflowStepTypes[i], status |-> "pending",
                            data |-> NoData, error |-> NoErr]]]
  /\ git \in { g \in WorkingCopies : g.current = OriginalBranch }
  /\ wctx = NoWctx
  /\ pc = "run"
  /\ caller = "Execute"
  /\ cur = 1
  /\ rbQueue = << >>
  /\ fs = EmptyDir
  /\ loaded = NotLoaded
  /\ storeLog = NoStoreLog
  /\ proc = NoProcs
  /\ flock = NoLocks
  /\ persisted = [saved |-> FALSE, state |-> NewRollbackState]
  /\ plan = << >>
  /\ enableRollback = TRUE
  /\ origin = "new"
  /\ steps = << >>
  /\ attempt = 0
  /\ rbStep = 0
  /\ ctxDone = FALSE
  /\ rbCtxDone = FALSE
  /\ stepErr = NoErr
  /\ rbErr = NoErr
  /\ result = NoErr
  /\ fresh = FALSE
  /\ calls = 0
  /\ loads = 0
  /\ execLog = << >>
  /\ execTries = 0
  /\ compTries = 0
  /\ execFailed = FALSE
  /\ compLog = << >>
  /\ compFailed = FALSE
  /\ saveLog = << >>
  /\ saveFailed = FALSE
  /\ visitLog = << >>

\* one turn of retry.Do in executeStep for the step Execute is at: its
\* execute function, then the record completed, or failed and rolled back
ReleaseStep ==
  /\ pc = "run"
  /\ cur <= Len(WorkflowStepTypes)
  /\ \E env \in StepAnswers, succeeds \in BOOLEAN :
       LET opType == WorkflowStepTypes[cur]
           quiet == [git EXCEPT !.calls = << >>]
           ran == CASE opType = OperationTypeNames[3] ->
                         CreateBranchStep(quiet, wctx, env)
                    [] opType = OperationTypeNames[8] ->
                         PushBranchStep(quiet, wctx, env)
                    [] opType = OperationTypeNames[5] ->
                         UpdatePackagesStep(quiet, wctx, succeeds)
                    [] opType = OperationTypeNames[6] ->
                         GenerateChangelogStep(quiet, wctx, succeeds)
                    [] opType = OperationTypeNames[7] ->
                         CommitChangesStep(quiet, wctx, succeeds)
                    [] opType = OperationTypeNames[9] ->
                         CreatePRStep(quiet, wctx, succeeds)
                    [] OTHER -> OtherStep(quiet, wctx, opType, succeeds)
           started == MarkOperationStarted(state, opType)
           failed == MarkOperationFailed(started, opType, ran.err)
       IN  /\ git' = ran.git
           /\ wctx' = ran.wctx
           /\ IF ran.err = NoErr
              THEN /\ state' = MarkOperationCompleted(started, opType, ran.data)
                   /\ cur' = cur + 1
                   /\ attempt' = 0
                   /\ UNCHANGED << pc, rbQueue, stepErr >>
              ELSE IF RetryStops(attempt)
                   THEN /\ state' = failed
                        /\ stepErr' = ran.err
                        /\ rbQueue' = GetCompletedOperations(failed.ops)
                        /\ pc' = IF GetCompletedOperations(failed.ops) = << >>
                                 THEN "done" ELSE "rollback"
                        /\ attempt' = 0
                        /\ UNCHANGED cur
                   ELSE /\ attempt' = attempt + 1
                        /\ UNCHANGED << state, cur, pc, rbQueue, stepErr >>
  /\ UNCHANGED << plan, enableRollback, origin, steps, persisted, caller,
                  rbStep, ctxDone, rbCtxDone, rbErr, result, fresh, calls,
                  loads, logs, fs, loaded, storeLog, proc, flock >>

\* Execute after the last step: the workflow is completed
ReleaseCompleted ==
  /\ pc = "run"
  /\ cur > Len(WorkflowStepTypes)
  /\ state' = [state EXCEPT !.status = "completed"]
  /\ pc' = "done"
  /\ UNCHANGED << plan, enableRollback, origin, steps, persisted, caller, cur,
                  attempt, rbQueue, rbStep, ctxDone, rbCtxDone, stepErr,
                  rbErr, result, fresh, calls, loads, logs, fs, loaded,
                  storeLog, proc, flock, git, wctx >>

NextRelease ==
  \/ ReleaseStep
  \/ ReleaseCompleted
  \/ CompensateRecord
  \/ RolledBack

SpecRelease == InitRelease /\ [][NextRelease]_vars

(* ------------------------------- claims -------------------------------- *)

\* the Execute call has returned
ExecuteReturned == pc = "idle" /\ caller = "Execute"

\* the Execute call in progress or last returned began on a state in which the
\* workflow and every record were pending
FreshExecute == caller = "Execute" /\ fresh

\* step cur of the Execute call exhausted its retries
RetriesExhausted == stepErr.kind = "execute failed"

\* the positions 1, 2, ..., n
Ascending(n) == [i \in 1..n |-> i]

\* the steps below k that have a compensate function, highest first
RECURSIVE CompensableBelow(_)
CompensableBelow(k) ==
  IF k <= 1 THEN << >>
  ELSE IF steps[k - 1].hasComp
       THEN << k - 1 >> \o CompensableBelow(k - 1)
       ELSE CompensableBelow(k - 1)

\* the positions of the completed records of ops at or below i, highest first
RECURSIVE CompletedPositions(_, _)
CompletedPositions(ops, i) ==
  IF i = 0 THEN << >>
  ELSE IF ops[i].status = "completed"
       THEN << i >> \o CompletedPositions(ops, i - 1)
       ELSE CompletedPositions(ops, i - 1)

\* the steps whose compensate function the current call invoked, in order
CompensatedSteps == [i \in 1..Len(compLog) |-> compLog[i].step]

\* C1: when step k of Execute exhausts its retries with rollback enabled, only
\* compensate functions of steps below k whose records are completed are
\* invoked, each step at most once and in strictly descending step order, and
\* a rollback that returns nil has invoked them for k-1, k-2, ..., 1 (the steps
\* among them that have a compensate function)
C1_CompensationOrder ==
  (FreshExecute /\ enableRollback /\ RetriesExhausted) =>
    /\ \A i \in 1..Len(compLog) :
         /\ compLog[i].step < cur
         /\ compLog[i].step >= 1
         /\ state.ops[compLog[i].step].status = "completed"
    /\ \A i, j \in 1..Len(compLog) :
         i < j => compLog[i].step > compLog[j].step
    /\ (pc = "idle" /\ rbErr = NoErr) => CompensatedSteps = CompensableBelow(cur)

\* C1 witness: step 3 exhausted its retries and steps 2 and 1 were compensated
C1_Witness ==
  /\ ExecuteReturned /\ fresh /\ enableRollback /\ RetriesExhausted
  /\ cur = 3
  /\ CompensatedSteps = << 2, 1 >>

\* C2 as claimed: for every k, step k exhausting its retries with rollback
\* enabled and no compensation failing leaves the workflow rolled_back
C2_RolledBackForEveryK ==
  (ExecuteReturned /\ fresh /\ enableRollback /\ RetriesExhausted
     /\ ~compFailed /\ ~rbCtxDone)
    => state.status = "rolled_back"

\* C3: when every registered step's execute is invoked and succeeds, Execute
\* returns nil, the executes ran in registration order, the workflow and every
\* record are completed, and GetCompletedOperations returns the records of all
\* steps in reverse registration order, each with its step's rollback data
C3_AllStepsSucceed ==
  (ExecuteReturned /\ fresh /\ ~execFailed
     /\ Len(execLog) = Len(steps)
     /\ result.kind # "failed to save initial state") =>
    /\ result = NoErr
    /\ execLog = Ascending(Len(steps))
    /\ state.status = "completed"
    /\ Len(state.ops) = Len(steps)
    /\ \A i \in 1..Len(state.ops) : state.ops[i].status = "completed"
    /\ LET done == GetCompletedOperations(state.ops)
           n == Len(steps)
       IN  /\ Len(done) = n
           /\ \A i \in 1..n :
                /\ done[i].pos = n + 1 - i
                /\ done[i].type = steps[n + 1 - i].type
                /\ done[i].data = DataOf(steps[n + 1 - i].name)

\* C3 witness: three steps ran, each succeeding at once
C3_Witness ==
  /\ ExecuteReturned /\ fresh /\ ~execFailed
  /\ Len(steps) = 3
  /\ execLog = << 1, 2, 3 >>
  /\ result = NoErr

\* the rollback of the last public call ran to its end and returned nil
RollbackSucceeded ==
  /\ pc = "idle"
  /\ rbErr = NoErr
  /\ \/ caller = "Rollback"
     \/ caller = "Execute" /\ enableRollback /\ stepErr # NoErr

\* C4: rollback, public or automatic, takes records in strictly descending
\* position, takes and compensates only records whose status is completed, and
\* when it returns nil it has taken every completed record, last first
C4_OnlyCompletedLastFirst ==
  /\ \A i \in 1..Len(visitLog) : state.ops[visitLog[i]].status = "completed"
  /\ \A i \in 1..Len(compLog) : state.ops[compLog[i].pos].status = "completed"
  /\ \A i, j \in 1..Len(visitLog) : i < j => visitLog[i] > visitLog[j]
  /\ RollbackSucceeded => visitLog = CompletedPositions(state.ops, Len(state.ops))

\* C4 witness: a public Rollback returned nil on a state that holds completed,
\* failed and pending records, having compensated a completed one
C4_Witness ==
  /\ pc = "idle" /\ caller = "Rollback" /\ rbErr = NoErr
  /\ compLog # << >>
  /\ \E i, j, k \in 1..Len(state.ops) :
       /\ state.ops[i].status = "completed"
       /\ state.ops[j].status = "failed"
       /\ state.ops[k].status = "pending"
       /\ i < j

\* C5: no execute and no compensate function is invoked more than
\* DefaultRetryCount + 1 times in one retry loop; a step that gives up on the
\* error of its execute function has invoked it exactly DefaultRetryCount + 1
\* times, its record is failed and no later step was started; a rollback that
\* gives up on the error of a compensate function has invoked it exactly
\* DefaultRetryCount + 1 times
C5_RetryBound ==
  /\ execTries <= DefaultRetryCount + 1
  /\ compTries <= DefaultRetryCount + 1
  /\ (FreshExecute /\ RetriesExhausted) =>
       /\ execTries = DefaultRetryCount + 1
       /\ state.ops[cur].status = "failed"
       /\ execLog = Ascending(cur)
       /\ \A j \in (cur + 1)..Len(state.ops) : state.ops[j].status = "pending"
  /\ (rbErr.kind = "rollback failed for" /\ rbErr.cause.kind = "compensate failed")
       => compTries = DefaultRetryCount + 1

\* C5 witness: step 2 gave up after DefaultRetryCount + 1 failing executes and
\* the compensation of step 1 gave up after as many failing compensates
C5_Witness ==
  /\ ExecuteReturned /\ fresh /\ RetriesExhausted
  /\ cur = 2 /\ Len(steps) = 3
  /\ execTries = DefaultRetryCount + 1
  /\ rbErr.kind = "rollback failed for"
  /\ rbErr.cause.kind = "compensate failed"
  /\ compTries = DefaultRetryCount + 1

\* C6: when a step fails with rollback enabled, Execute returns the step's
\* failure wrapped with the step's name if rollback returned nil, and a
\* compound error holding the step's failure and the rollback's failure if
\* rollback failed; never nil and never the rollback failure alone
C6_ErrorCarriesStepFailure ==
  (ExecuteReturned /\ enableRollback /\ stepErr # NoErr) =>
    /\ result # NoErr
    /\ result # rbErr
    /\ result.name = steps[cur].name
    /\ result.cause = stepErr
    /\ rbErr = NoErr => result.kind = "step failed"
    /\ rbErr # NoErr =>
         /\ result.kind = "step failed, rollback also failed"
         /\ result.rollback = rbErr

\* C6 witness: Execute returned the compound error of a failed rollback
C6_Witness ==
  /\ ExecuteReturned /\ enableRollback
  /\ RetriesExhausted
  /\ rbErr # NoErr
  /\ result.kind = "step failed, rollback also failed"

\* C7: with rollback disabled a step failure invokes no compensation, Execute
\* stops at the failing step, the records of the steps before it stay
\* completed and the workflow status ends as failed
C7_NoRollbackWhenDisabled ==
  /\ (caller = "Execute" /\ ~enableRollback) => (compLog = << >> /\ visitLog = << >>)
  /\ (ExecuteReturned /\ fresh /\ ~enableRollback /\ stepErr # NoErr) =>
       /\ state.status = "failed"
       /\ execLog \in { Ascending(cur), Ascending(cur - 1) }
       /\ \A j \in 1..(cur - 1) : state.ops[j].status = "completed"
       /\ state.ops[cur].status = "failed"
       /\ \A j \in (cur + 1)..Len(state.ops) : state.ops[j].status = "pending"

\* C7 witness: with rollback disabled step 2 of 3 exhausted its retries
C7_Witness ==
  /\ ExecuteReturned /\ fresh /\ ~enableRollback
  /\ RetriesExhausted
  /\ cur = 2 /\ Len(steps) = 3

\* C8 as claimed: with rollback disabled Execute returns the bare step error
C8_BareStepError ==
  (ExecuteReturned /\ ~enableRollback /\ stepErr # NoErr) => result = stepErr

\* C8 amended: with rollback disabled Execute returns the step error wrapped
\* with the name of the failing step, the step error being the wrapped cause
C8_WrappedStepError ==
  (ExecuteReturned /\ ~enableRollback /\ stepErr # NoErr) =>
    /\ result.kind = "step failed"
    /\ result.name = steps[cur].name
    /\ result.cause = stepErr

\* C8 witness: with rollback disabled Execute returned for a step whose
\* execute function failed on every attempt
C8_Witness ==
  /\ ExecuteReturned /\ ~enableRollback
  /\ RetriesExhausted
  /\ result.cause = ExecErr(steps[cur].name)

\* the Save calls of an Execute whose n steps all succeed
RECURSIVE StepSaves(_, _)
StepSaves(i, n) ==
  IF i > n THEN << >>
  ELSE << [at |-> "started", step |-> i], [at |-> "completed", step |-> i] >>
       \o StepSaves(i + 1, n)

\* C9: with persistence enabled an Execute that returns nil has called Save
\* before the first step, after each step was marked running, after each step
\* was marked completed and at the end, 2n + 2 calls for n steps; with
\* persistence disabled Execute and Rollback never call Save
C9_SaveCalls ==
  /\ (caller # "none" /\ ~enableRollback) => saveLog = << >>
  /\ (ExecuteReturned /\ enableRollback /\ result = NoErr) =>
       /\ Len(saveLog) = 2 * Len(steps) + 2
       /\ saveLog = << [at |-> "initial", step |-> 0] >>
                      \o StepSaves(1, Len(steps))
                      \o << [at |-> "final", step |-> 0] >>

\* C9 witness: a persisted Execute of two steps returned nil
C9_Witness ==
  /\ ExecuteReturned /\ enableRollback /\ result = NoErr
  /\ Len(steps) = 2
  /\ Len(saveLog) = 6

\* C10: with persistence enabled and every Save accepted, when the execute
\* function of step k is about to be invoked for the first time the saved
\* snapshot shows steps 1..k-1 completed with their rollback data, step k
\* running and the later steps pending
C10_SnapshotBeforeExecute ==
  (FreshExecute /\ enableRollback /\ ~saveFailed
     /\ pc = "exec_try" /\ execTries = 0) =>
    /\ persisted.saved
    /\ Len(persisted.state.ops) = Len(steps)
    /\ \A j \in 1..(cur - 1) :
         /\ persisted.state.ops[j].status = "completed"
         /\ persisted.state.ops[j].data = DataOf(steps[j].name)
    /\ persisted.state.ops[cur].status = "running"
    /\ \A j \in (cur + 1)..Len(steps) : persisted.state.ops[j].status = "pending"

\* C10 witness: step 3 is about to run for the first time after two saved steps
C10_Witness ==
  /\ FreshExecute /\ enableRollback /\ ~saveFailed
  /\ pc = "exec_try" /\ execTries = 0
  /\ cur = 3

\* the step taken calls Save and the repository refuses the state
SaveRefused ==
  /\ Len(saveLog') = Len(saveLog) + 1
  /\ saveFailed'
  /\ persisted' = persisted

\* what Execute leaves in memory and returns when the step at cur failed with
\* stepErr and rollback returned rbErr, or when no step failed
ExecuteOutcome ==
  IF stepErr = NoErr
  THEN /\ cur = Len(steps) + 1
       /\ result = NoErr
       /\ state.status = "completed"
       /\ execLog = Ascending(Len(steps))
       /\ \A j \in 1..Len(state.ops) : state.ops[j].status = "completed"
  ELSE /\ cur \in 1..Len(steps)
       /\ result = ExecuteError(steps[cur].name, stepErr, enableRollback, rbErr)
       /\ \A j \in 1..(cur - 1) : state.ops[j].status = "completed"
       /\ state.ops[cur].status = "failed"
       /\ \A j \in (cur + 1)..Len(state.ops) : state.ops[j].status = "pending"
       /\ state.status = IF enableRollback /\ rbErr = NoErr /\ cur > 1
                         THEN "rolled_back" ELSE "failed"
       /\ enableRollback =>
            /\ \A i \in 1..Len(compLog) : compLog[i].step < cur
            /\ rbErr = NoErr => CompensatedSteps = CompensableBelow(cur)

\* C11: once the initial save is accepted, a refused Save never ends the call:
\* at each later Save (step marked running, step marked completed, step marked
\* failed, compensation done, workflow rolled back, workflow completed) the
\* call carries on from a refused Save to the same position and in-memory state
\* as from an accepted one; and whatever Saves were refused, Execute ends with
\* the statuses, the compensations and the error that the failing step, its
\* error and rollback's error determine, none of them a save error
C11_SaveFailureDoesNotAbort ==
  /\ (enableRollback /\ pc = "exec_loop" /\ cur <= Len(steps)) =>
       ENABLED (ExecuteStepBegin /\ SaveRefused /\ pc' = "exec_try"
                  /\ state' = MarkOperationStarted(state, steps[cur].type))
  /\ (enableRollback /\ pc = "exec_try" /\ ~ctxDone) =>
       ENABLED (ExecuteStepTry /\ SaveRefused /\ pc' = "exec_loop"
                  /\ cur' = cur + 1
                  /\ state' = MarkOperationCompleted(state, steps[cur].type,
                                                     DataOf(steps[cur].name)))
  /\ (enableRollback /\ pc = "exec_try" /\ (ctxDone \/ RetryStops(attempt))) =>
       ENABLED (ExecuteStepTry /\ SaveRefused /\ stepErr' # NoErr
                  /\ state' = MarkOperationFailed(state, steps[cur].type, stepErr')
                  /\ IF GetCompletedOperations(state'.ops) = << >>
                     THEN pc' = "idle" /\ result' = ErrStepFailed(steps[cur].name, stepErr')
                     ELSE pc' = "rb_visit"
                          /\ rbQueue' = GetCompletedOperations(state'.ops))
  /\ (enableRollback /\ pc = "rb_try" /\ ~RollbackCtxDone) =>
       ENABLED (CompensationTry /\ SaveRefused /\ pc' = "rb_visit"
                  /\ rbQueue' = Tail(rbQueue))
  /\ (enableRollback /\ pc = "rb_visit" /\ rbQueue = << >>) =>
       ENABLED (RollbackFinish /\ SaveRefused /\ pc' = "idle"
                  /\ rbErr' = NoErr /\ state'.status = "rolled_back")
  /\ (enableRollback /\ pc = "exec_loop" /\ cur > Len(steps)) =>
       ENABLED (ExecuteFinish /\ SaveRefused /\ pc' = "idle"
                  /\ result' = NoErr /\ state'.status = "completed")
  /\ (ExecuteReturned /\ fresh /\ result.kind # "failed to save initial state")
       => ExecuteOutcome

\* C11 witness: Execute returned with the workflow rolled back after every Save
\* but the initial one was refused (the repository still holds the pending
\* workflow)
C11_Witness ==
  /\ ExecuteReturned /\ fresh /\ enableRollback
  /\ saveFailed /\ persisted.state.status = "pending"
  /\ RetriesExhausted /\ cur = 3
  /\ CompensatedSteps = << 2, 1 >>
  /\ state.status = "rolled_back"
  /\ result = ErrStepFailed(steps[3].name, stepErr)

\* step cur of the Execute call failed on the caller's cancelled context
StepCanceled == stepErr = CtxCanceled

\* C12: when step k of Execute fails because the caller's context is cancelled,
\* the automatic rollback is not stopped by that cancellation: it goes on
\* visiting records and invoking compensations while its own timeout has not
\* passed, it fails only on that timeout or on a compensation that fails, the
\* compensations it invokes are those of completed steps below k in strictly
\* descending order, and when it returns nil they are k-1, ..., 1 and, for
\* k > 1, the workflow is rolled_back
C12_RollbackIgnoresCallerCancel ==
  (FreshExecute /\ enableRollback /\ StepCanceled) =>
    /\ ctxDone
    /\ (pc = "rb_visit" /\ rbQueue # << >> /\ ~rbCtxDone) =>
         ENABLED (RollbackVisit /\ Len(visitLog') = Len(visitLog) + 1)
    /\ (pc = "rb_try" /\ ~rbCtxDone) =>
         ENABLED (CompensationTry /\ compTries' = compTries + 1)
    /\ rbErr # NoErr => (rbCtxDone \/ compFailed)
    /\ \A i \in 1..Len(compLog) :
         /\ compLog[i].step \in 1..(cur - 1)
         /\ state.ops[compLog[i].step].status = "completed"
    /\ \A i, j \in 1..Len(compLog) :
         i < j => compLog[i].step > compLog[j].step
    /\ (pc = "idle" /\ rbErr = NoErr) =>
         /\ CompensatedSteps = CompensableBelow(cur)
         /\ cur > 1 => state.status = "rolled_back"

\* C12 witness: the context was cancelled while step 3 was executing, steps 2
\* and 1 were compensated and the workflow is rolled back
C12_Witness ==
  /\ ExecuteReturned /\ fresh /\ enableRollback
  /\ StepCanceled /\ ctxDone
  /\ cur = 3 /\ execTries >= 1
  /\ CompensatedSteps = << 2, 1 >>
  /\ state.status = "rolled_back"

\* the step taken belongs to an Execute call whose context is cancelled
ExecuteUnderCancel ==
  /\ caller = "Execute" /\ caller' = "Execute"
  /\ ctxDone /\ ctxDone'

\* the step taken belongs to a public Rollback call whose context is cancelled
RollbackUnderCancel ==
  /\ caller = "Rollback" /\ caller' = "Rollback"
  /\ ctxDone /\ ctxDone'

CompensationExhausted ==
  /\ rbErr.kind = "rollback failed for"
  /\ rbErr.cause.kind = "compensate failed"

\* C14: when a compensation still fails after its retries, rollback has
\* returned at once: the failing compensation is the last one invoked, its
\* record is still the next of completedOps and no earlier record was taken,
\* the error names the step whose compensation failed (inside Execute's
\* compound error for the automatic rollback), the step that gives up leaves
\* the state as it is, and a rollback changes the workflow status only when
\* it finishes with nil
C14_CompensationFailureAborts ==
  /\ [] (CompensationExhausted =>
           /\ pc = "idle"
           /\ compLog # << >>
           /\ compLog[Len(compLog)].step = rbStep
           /\ rbQueue # << >>
           /\ Head(rbQueue).pos = compLog[Len(compLog)].pos
           /\ visitLog[Len(visitLog)] = Head(rbQueue).pos
           /\ \A i \in 1..Len(visitLog) : visitLog[i] >= Head(rbQueue).pos
           /\ rbErr = ErrRollbackFailedFor(steps[rbStep].name,
                                           CompErr(steps[rbStep].name))
           /\ rbErr.name = steps[FindStepByType(steps, Head(rbQueue).type)].name
           /\ result = IF caller = "Execute"
                       THEN ErrStepAndRollbackFailed(steps[cur].name, stepErr, rbErr)
                       ELSE rbErr
           /\ FreshExecute => state.status = "failed")
  /\ [][ /\ (CompensationExhausted' /\ ~CompensationExhausted) => state' = state
         /\ (pc \in {"rb_visit", "rb_try"} /\ loads' = loads
               /\ state'.status # state.status) =>
              /\ rbQueue = << >>
              /\ rbErr' = NoErr
              /\ state'.status = "rolled_back"
     ]_vars

\* C14 witness: the Rollback of a loaded session compensated its third record,
\* gave up on the compensation of the second and left the first untouched
C14_Witness ==
  /\ origin = "loaded" /\ caller = "Rollback"
  /\ CompensationExhausted
  /\ compTries = DefaultRetryCount + 1
  /\ CompensatedSteps = << 3, 2 >>
  /\ Len(rbQueue) = 2
  /\ state.status # "rolled_back"

\* the moves of the workflow status the data model allows
WorkflowStatusMoves ==
  { << "pending", "running" >>, << "running", "completed" >>,
    << "running", "failed" >>, << "failed", "rolled_back" >> }

\* C15 as claimed: on one executor the workflow status changes only along
\* pending -> running -> {completed | failed} and failed -> rolled_back (the
\* step that loads a session into a new executor is not a change of status)
C15_StatusMoves ==
  [][ (loads' = loads /\ state'.status # state.status) =>
        << state.status, state'.status >> \in WorkflowStatusMoves ]_vars

\* the moves of a record's status the data model allows
RecordStatusMoves ==
  { << "pending", "running" >>, << "running", "completed" >>,
    << "running", "failed" >> }

\* C16: every call on the state keeps the records it found, in their places
\* and with their types, moves the status of a record only along pending ->
\* running -> {completed | failed}, and leaves a completed or failed record
\* with the status, the rollback data and the error it has
C16_RecordsOnlyAdvance ==
  [][ /\ Len(state'.ops) >= Len(state.ops)
      /\ \A i \in 1..Len(state.ops) :
           /\ state'.ops[i].type = state.ops[i].type
           /\ state'.ops[i].status # state.ops[i].status =>
                << state.ops[i].status, state'.ops[i].status >> \in RecordStatusMoves
           /\ state.ops[i].status \in {"completed", "failed"} =>
                state'.ops[i] = state.ops[i]
    ]_vars

\* C16 witness: a completed and a failed record of one type, followed by a
\* record of that type that is running
C16_Witness ==
  /\ Len(state.ops) = 3
  /\ state.ops[1].type = state.ops[2].type
  /\ state.ops[2].type = state.ops[3].type
  /\ state.ops[1].status = "completed"
  /\ state.ops[2].status = "failed"
  /\ state.ops[3].status = "running"

\* C17 as claimed: the state holds one record per registered step, the i-th
\* record having the type of the i-th step
C17_OneRecordPerStep ==
  /\ Len(state.ops) = Len(steps)
  /\ \A i \in 1..Len(steps) : state.ops[i].type = steps[i].type

\* C18 as claimed: a Mark call changes the status of no record that is
\* followed by a record of the same type in the same status (it takes the
\* latest such record), and changes at most one record
C18_MarksMostRecent ==
  [][ Len(state'.ops) = Len(state.ops) =>
        /\ \A i \in 1..Len(state.ops) :
             state'.ops[i].status # state.ops[i].status =>
               \A j \in (i + 1)..Len(state.ops) :
                 ~ (/\ state.ops[j].type = state.ops[i].type
                    /\ state.ops[j].status = state.ops[i].status)
        /\ \A i, j \in 1..Len(state.ops) :
             (/\ state'.ops[i].status # state.ops[i].status
              /\ state'.ops[j].status # state.ops[j].status) => i = j
    ]_vars

\* rollback skips a record of the type: no step of the type is registered, or
\* the step has no compensate function
Uncompensable(opType) ==
  LET i == FindStepByType(steps, opType)
  IN  i = 0 \/ ~steps[i].hasComp

\* the record at position p has a step with a compensate function
CompensablePosition(p) == ~Uncompensable(state.ops[p].type)

\* C19: the turn of rollback that takes a completed record whose type has no
\* registered step, or whose step has no compensate function, invokes nothing,
\* changes nothing and goes on to the record before it; every compensation
\* invoked is the compensate function of the step registered for the record's
\* type; and a public Rollback that took a completed record and returned, its
\* context live and no compensation given up, has taken every completed
\* record last first, compensated those that have a compensate function,
\* returned nil, set the workflow to rolled_back and called Save with it (the
\* repository holds that state unless it refused a Save)
C19_SkipsUncompensable ==
  /\ [] (/\ \A i \in 1..Len(compLog) :
              /\ compLog[i].step \in 1..Len(steps)
              /\ steps[compLog[i].step].hasComp
              /\ steps[compLog[i].step].type = state.ops[compLog[i].pos].type
         /\ (caller = "Rollback" /\ pc = "idle" /\ visitLog # << >>
               /\ ~ctxDone /\ ~CompensationExhausted) =>
              /\ rbErr = NoErr
              /\ result = NoErr
              /\ state.status = "rolled_back"
              /\ visitLog = CompletedPositions(state.ops, Len(state.ops))
              /\ [i \in 1..Len(compLog) |-> compLog[i].pos]
                   = SelectSeq(visitLog, CompensablePosition)
              /\ saveLog # << >>
              /\ saveLog[Len(saveLog)] = [at |-> "rolled_back", step |-> 0]
              /\ ~saveFailed => persisted = [saved |-> TRUE, state |-> state])
  /\ [][ (/\ pc = "rb_visit"
          /\ Len(visitLog') = Len(visitLog) + 1
          /\ Uncompensable(Head(rbQueue).type)) =>
           /\ pc' = "rb_visit"
           /\ rbQueue' = Tail(rbQueue)
           /\ compLog' = compLog
           /\ state' = state
           /\ rbErr' = rbErr
     ]_vars

\* C19 witness: Rollback of a loaded session took three completed records, one
\* with no registered step and one whose step has no compensate function,
\* compensated the third and left the workflow rolled back
C19_Witness ==
  /\ caller = "Rollback" /\ pc = "idle" /\ rbErr = NoErr
  /\ state.status = "rolled_back"
  /\ Len(visitLog) = 3
  /\ Len(compLog) = 1
  /\ \E p, q \in 1..3 :
       /\ FindStepByType(steps, state.ops[p].type) = 0
       /\ FindStepByType(steps, state.ops[q].type) # 0
       /\ ~steps[FindStepByType(steps, state.ops[q].type)].hasComp
  /\ persisted.state.status = "rolled_back"

\* two records with the same type, status and error, and rollback data that
\* json.Marshal writes alike (a []string and the []any it is read back as are
\* the same data)
SameRecord(a, b) ==
  /\ a.type = b.type
  /\ a.status = b.status
  /\ a.error = b.error
  /\ DOMAIN a.data = DOMAIN b.data
  /\ \A k \in DOMAIN a.data : MarshalValue(a.data[k]) = MarshalValue(b.data[k])

\* C20 as claimed: a Load that follows a Save that returned nil, and got the
\* lock, returns nil and a state equal to the saved one (session id, version,
\* workflow status, error, and every record's type, status and rollback
\* data), whose recomputed checksum is the checksum stored in the wrapper
C20_SaveLoadRoundTrip ==
  (caller = "Load" /\ result = NoErr
     /\ GetStateFilename(state.session_id) \in DOMAIN fs
     /\ loaded.err # ErrAcquireSharedLock) =>
    /\ loaded.ok
    /\ loaded.err = NoErr
    /\ loaded.state.session_id = state.session_id
    /\ loaded.state.version = state.version
    /\ loaded.state.status = state.status
    /\ loaded.state.error = state.error
    /\ Len(loaded.state.ops) = Len(state.ops)
    /\ \A i \in 1..Len(state.ops) : SameRecord(loaded.state.ops[i], state.ops[i])
    /\ CalculateChecksum(MarshalState(loaded.state))
         = fs[GetStateFilename(state.session_id)].metadata.checksum

\* the state file of the session and what the last Save wrote in it
StateFile == fs[GetStateFilename(state.session_id)]

SavedFile == storeLog.written[GetStateFilename(state.session_id)]

\* Load of the session got the lock and found the file Save wrote
LoadedSavedFile ==
  /\ caller = "Load"
  /\ loaded.err # ErrAcquireSharedLock
  /\ GetStateFilename(state.session_id) \in DOMAIN fs
  /\ GetStateFilename(state.session_id) \in DOMAIN storeLog.written

\* the payload of the state file is not the one Save wrote, the metadata is
PayloadChanged ==
  /\ StateFile # SavedFile
  /\ IsWrapper(StateFile) => StateFile.metadata = SavedFile.metadata

\* the changed payload does not parse, or decodes to another state than the
\* payload Save wrote
DecodesDifferently ==
  IsWrapper(StateFile) =>
    UnmarshalState(StateFile.state) # UnmarshalState(SavedFile.state)

\* Load failed on the content of the file and returned no state
LoadRejected ==
  /\ ~loaded.ok
  /\ loaded.err \in {ErrChecksum, ErrUnmarshal}
  /\ "state" \notin DOMAIN loaded

\* Load never returns a state whose recomputed checksum is not the stored one
ChecksumOfLoaded ==
  (LoadedSavedFile /\ loaded.ok) =>
    CalculateChecksum(MarshalState(loaded.state)) = StateFile.metadata.checksum

\* C21 as claimed: when the payload of the state file was changed and the
\* stored checksum was not, Load fails with a corruption error and returns no
\* state; and Load never returns a state whose checksum is not the stored one
C21_AnyChangeRejected ==
  /\ (LoadedSavedFile /\ PayloadChanged) => LoadRejected
  /\ ChecksumOfLoaded

\* C21 amended: when the payload was changed so that it no longer parses or
\* decodes to another state, and the stored checksum was not changed, Load
\* fails with a corruption error and returns no state; a change that decodes
\* to the same state (white space, another spelling of the same string) is
\* not noticed and Load returns the state the saved payload decodes to; Load
\* never returns a state whose recomputed checksum is not the stored one
C21_DecodedChangeRejected ==
  /\ (LoadedSavedFile /\ PayloadChanged /\ DecodesDifferently) => LoadRejected
  /\ (LoadedSavedFile /\ PayloadChanged /\ loaded.ok) =>
       loaded.state = UnmarshalState(SavedFile.state)
  /\ ChecksumOfLoaded

\* a record was cut out of the payload and Load answered checksum mismatch
C21_Witness ==
  /\ LoadedSavedFile
  /\ PayloadChanged
  /\ IsWrapper(StateFile)
  /\ Len(StateFile.state.operations) < Len(SavedFile.state.operations)
  /\ loaded.err = ErrChecksum

\* the content of the state file of the session passes every test of Load
FileLoads ==
  /\ GetStateFilename(state.session_id) \in DOMAIN fs
  /\ IsWrapper(StateFile)
  /\ StateFile.metadata.schema_version = StateSchemaVersion
  /\ StateFile.metadata.checksum
       = CalculateChecksum(MarshalState(UnmarshalState(StateFile.state)))

\* the error kinds of the four failures of Load
LoadFailureKinds ==
  << ErrAcquireSharedLock, ErrNotFound, ErrSchemaVersion, ErrChecksum >>

\* C22: Load returns a state only when it got the lock, found the file, read
\* the current schema version and a matching checksum; a lock that could not
\* be had, a missing file, another schema version and a checksum mismatch give
\* four different error kinds, each with no state
C22_LoadFailuresDistinct ==
  /\ \A i, j \in 1..4 : i # j => LoadFailureKinds[i] # LoadFailureKinds[j]
  /\ caller = "Load" =>
       /\ loaded.ok <=> "state" \in DOMAIN loaded
       /\ loaded.ok <=> loaded.err = NoErr
       /\ loaded.ok =>
            /\ FileLoads
            /\ loaded.state = UnmarshalState(StateFile.state)
       /\ loaded.err # ErrAcquireSharedLock =>
            /\ GetLockFilename(state.session_id) \in DOMAIN fs
            /\ GetStateFilename(state.session_id) \notin DOMAIN fs
                 <=> loaded.err = ErrNotFound
            /\ (GetStateFilename(state.session_id) \in DOMAIN fs
                  /\ IsWrapper(StateFile)) =>
                 /\ StateFile.metadata.schema_version # StateSchemaVersion
                      <=> loaded.err = ErrSchemaVersion
                 /\ (StateFile.metadata.schema_version = StateSchemaVersion
                       /\ ~FileLoads) <=> loaded.err = ErrChecksum
            /\ FileLoads => loaded.ok

\* Load met a state file of another schema version
C22_Witness ==
  /\ caller = "Load"
  /\ GetStateFilename(state.session_id) \in DOMAIN fs
  /\ IsWrapper(StateFile)
  /\ StateFile.metadata.schema_version = OtherSchemaVersion
  /\ loaded.err = ErrSchemaVersion
  /\ ~loaded.ok

\* two states with the same session id, version, status and error and the
\* same records
SameState(a, b) ==
  /\ a.session_id = b.session_id
  /\ a.version = b.version
  /\ a.status = b.status
  /\ a.error = b.error
  /\ Len(a.ops) = Len(b.ops)
  /\ \A i \in 1..Len(a.ops) : SameRecord(a.ops[i], b.ops[i])

\* C23 as claimed: when every Save so far succeeded and nothing was deleted,
\* a LoadLatest that gets the lock returns the state given to the most recent
\* Save, whichever session it belongs to; when there was no Save it returns
\* the error "no latest state found"
C23_LoadLatestReturnsLastSaved ==
  (caller = "LoadLatest" /\ ~storeLog.failed /\ ~storeLog.deleted
     /\ loaded.err # ErrAcquireSharedLock) =>
    IF storeLog.last = << >>
    THEN ~loaded.ok /\ loaded.err = ErrNoLatest
    ELSE loaded.ok /\ SameState(loaded.state, storeLog.last[1])

\* a Delete of the session returned nil
Deleted == caller = "Delete" /\ result = NoErr

\* after a Delete that returned nil the state file is gone, and so is the lock
\* file unless Delete warned that it could not remove it
DeleteRemoves ==
  Deleted =>
    /\ GetStateFilename(state.session_id) \notin DOMAIN fs
    /\ ~storeLog.warned => GetLockFilename(state.session_id) \notin DOMAIN fs

\* the call of the same session that follows a Delete that returned nil:
\* Exists answers false, Load answers not found, Delete returns nil again
AfterDelete ==
  (Deleted /\ state' = state) =>
    /\ (caller' = "Exists" /\ loaded'.ok) => ~loaded'.exists
    /\ (caller' = "Load" /\ loaded'.err # ErrAcquireSharedLock) =>
         (~loaded'.ok /\ loaded'.err = ErrNotFound)
    /\ (caller' = "Delete" /\ result' # ErrAcquireLockDeletion) => result' = NoErr

\* a Delete that gets the lock and finds no state file returns nil
DeleteOfMissing ==
  (caller' = "Delete" /\ GetStateFilename(state.session_id) \notin DOMAIN fs
     /\ result' # ErrAcquireLockDeletion) => result' = NoErr

\* C28: Delete removes the state file and the lock file of the session and
\* returns nil when there is no state file; after a Delete that returned nil
\* Exists is false, Load is "not found" and another Delete returns nil
C28_DeleteIsIdempotent ==
  /\ []DeleteRemoves
  /\ [][AfterDelete /\ DeleteOfMissing]_vars

\* a session that was saved and then deleted, and Exists answered false
C28_Witness ==
  /\ caller = "Exists"
  /\ loaded.ok
  /\ ~loaded.exists
  /\ storeLog.deleted
  /\ GetStateFilename(state.session_id) \in DOMAIN storeLog.written
  /\ GetLockFilename(state.session_id) \notin DOMAIN fs

\* C25 as claimed: of the processes inside Save, Load or Delete of the
\* session, a holder of the exclusive lock is the only holder of any lock
C25_LocksExclude ==
  \A p, q \in Procs :
    (p # q /\ proc[p].held = "ex") => proc[q].held = "none"

\* the last call of p was a Save and it returned nil
SaveDone(p) ==
  /\ proc[p].pc = "idle"
  /\ proc[p].op = "Save"
  /\ proc[p].out.called
  /\ proc[p].out.ok

\* p is in Save between the making of the temp file and the deferred Unlock
Writing(p) ==
  /\ proc[p].op = "Save"
  /\ proc[p].pc \in {"temp", "written", "renamed", "unlock"}

\* the state file of the contended session
SharedFile == fs[GetStateFilename(SharedSession)]

\* C24 as claimed: while one Save is between its temp file and its Unlock no
\* other call holds a lock or is there too; and once every process has
\* finished a Save the state file is the whole wrapper of one of them and
\* Load accepts its checksum
C24_SavesSerialize ==
  /\ \A p, q \in Procs :
       (p # q /\ Writing(p)) => (proc[q].held = "none" /\ ~Writing(q))
  /\ (\A p \in Procs : SaveDone(p)) =>
       /\ GetStateFilename(SharedSession) \in DOMAIN fs
       /\ \E p \in Procs : SharedFile = WrapperOf(StateOfProc(p))
       /\ ReadState(fs, SharedSession).ok

\* the state file, when there is one, is the whole wrapper of a Save
StateFileWhole ==
  GetStateFilename(SharedSession) \in DOMAIN fs =>
    \E p \in Procs : SharedFile = WrapperOf(StateOfProc(p))

\* the state file changes in one step, the Rename of a Save, from what it was
\* to the whole wrapper of that Save; a process that dies changes no file
StateFileReplaced ==
  LET filename == GetStateFilename(SharedSession)
      changed == \/ (filename \in DOMAIN fs) # (filename \in DOMAIN fs')
                 \/ (filename \in DOMAIN fs /\ fs'[filename] # fs[filename])
  IN  /\ changed =>
           \E p \in Procs :
             /\ proc[p].op = "Save"
             /\ proc[p].pc = "written"
             /\ proc'[p].pc = "renamed"
             /\ filename \in DOMAIN fs'
             /\ fs'[filename] = WrapperOf(StateOfProc(p))
      /\ (\E p \in Procs : proc'[p].out = Failed(ErrCrashed)
                             /\ proc[p].out # Failed(ErrCrashed)) => fs' = fs

\* what Load returns comes from the state file: its state when Load returns
\* one, "not found" when there is no state file, whatever the temp file holds
LoadReadsStateFile ==
  \A p \in Procs :
    (proc[p].op = "Load" /\ proc[p].pc = "locked" /\ proc'[p].pc = "unlock") =>
      /\ proc'[p].out.ok =>
           /\ GetStateFilename(SharedSession) \in DOMAIN fs
           /\ proc'[p].out.state = UnmarshalState(SharedFile.state)
      /\ GetStateFilename(SharedSession) \notin DOMAIN fs =>
           proc'[p].out = Failed(ErrNotFound)

\* C26: whenever a process dies inside Save, the state file is what it was
\* before that Save or the whole wrapper of that Save, never part of one; only
\* the temp file can be cut short, and Load never returns what is in it
C26_CrashLeavesWholeFile ==
  /\ []StateFileWhole
  /\ [][StateFileReplaced /\ LoadReadsStateFile]_vars

\* a process died inside Save with the temp file cut short, and the state
\* file is still the whole wrapper of the Save before
C26_Witness ==
  /\ \E p, q \in Procs :
       /\ p # q
       /\ proc[p].op = "Save"
       /\ proc[p].out = Failed(ErrCrashed)
       /\ GetStateFilename(SharedSession) \in DOMAIN fs
       /\ SharedFile = WrapperOf(StateOfProc(q))
  /\ TempFileOf(GetStateFilename(SharedSession)) \in DOMAIN fs
  /\ fs[TempFileOf(GetStateFilename(SharedSession))] = Truncated

\* p is waiting for the lock
Waiting(p) == proc[p].pc \in {"poll", "opened"}

\* a call that has not got the lock is waiting for it and has not touched
\* the state file
NoLockNoAccess ==
  \A p \in Procs :
    (proc[p].pc # "idle" /\ ~proc[p].got) => (Waiting(p) /\ ~proc[p].touched)

\* a call that returns without having got the lock returns an error and no
\* state, and leaves the files as they are
ReturnsLockError ==
  \A p \in Procs :
    (proc[p].pc # "idle" /\ proc'[p].pc = "idle" /\ ~proc[p].got) =>
      /\ proc[p].ctx
      /\ proc'[p].out.called
      /\ ~proc'[p].out.ok
      /\ proc'[p].out.err # NoErr
      /\ "state" \notin DOMAIN proc'[p].out
      /\ fs' = fs

\* a step that changes a file of the state directory is a step of a call that
\* has got the lock
FilesChangeUnderLock ==
  fs' # fs => \E p \in Procs : proc[p].got /\ proc'[p] # proc[p]

IssuedDelete(g, method) ==
  \E i \in 1..Len(g.calls) :
    g.calls[i][1] = method /\ g.calls[i][2] = ReleaseBranch

\* no call of the compensation that ran last was answered with an error
NoCallFailed(g) == \A i \in 1..Len(g.calls) : g.calls[i][3] = "ok"

\* the step is a DeleteBranch compensation of the record rollback is at
CompensatingBranch ==
  /\ pc = "rollback"
  /\ rbQueue # << >>
  /\ Head(rbQueue).type \in {OperationTypeNames[3], OperationTypeNames[8]}

\* what DeleteBranch does with rollback data d on the working copy git
DeleteBranchCases(d) ==
  LET named == "branch_name" \in DOMAIN d /\ d["branch_name"].go = "string"
      created == /\ "created_in_session" \in DOMAIN d
                 /\ d["created_in_session"] = GoBool(TRUE)
      pushed == "pushed" \in DOMAIN d /\ d["pushed"] = GoBool(TRUE)
      local == ReleaseBranch \in git.local
      remote == ReleaseBranch \in git.remote
  IN  /\ ~created =>
           /\ git'.calls = << >>
           /\ git'.local = git.local
           /\ git'.remote = git.remote
      /\ IssuedDelete(git', "DeleteBranch") <=>
           /\ named /\ created /\ local
           /\ \E i \in 1..Len(git'.calls) :
                git'.calls[i] = << "ListLocalBranches", "", "ok" >>
      /\ (IssuedDelete(git', "DeleteBranch") /\ git.current = ReleaseBranch
            /\ git'.calls[1][3] = "ok") => git'.current # ReleaseBranch
      /\ IssuedDelete(git', "DeleteRemoteBranch") <=>
           /\ named /\ created /\ pushed /\ remote
           /\ \E i \in 1..Len(git'.calls) :
                git'.calls[i] = << "ListRemoteBranches", "", "ok" >>
      /\ (named /\ created /\ pushed /\ local /\ remote /\ NoCallFailed(git')) =>
           /\ IssuedDelete(git', "DeleteBranch")
           /\ IssuedDelete(git', "DeleteRemoteBranch")
           /\ ReleaseBranch \notin git'.local \cup git'.remote
      /\ (created /\ ~pushed) =>
           /\ ~IssuedDelete(git', "DeleteRemoteBranch")
           /\ git'.remote = git.remote
           /\ (named /\ local /\ NoCallFailed(git')) =>
                /\ IssuedDelete(git', "DeleteBranch")
                /\ ReleaseBranch \notin git'.local

\* C29: DeleteBranch issues no local and no remote delete when
\* created_in_session is false or absent, whatever the other fields are; it
\* issues a local and a remote delete when created_in_session and pushed are
\* true and the branch is there in both places; it issues only the local
\* delete when created_in_session is true and pushed is false or absent (the
\* data naming the branch and no git call failing)
C29_DeleteBranchCases ==
  [][CompensatingBranch => DeleteBranchCases(Head(rbQueue).data)]_vars

\* DeleteBranch got created_in_session and pushed true, deleted the branch in
\* both places and rollback went on
C29_Witness ==
  /\ compLog # << >>
  /\ WasCreatedInSession(compLog[Len(compLog)].data)
  /\ WasPushed(compLog[Len(compLog)].data)
  /\ rbQueue = << >>
  /\ IssuedDelete(git, "DeleteBranch")
  /\ IssuedDelete(git, "DeleteRemoteBranch")
  /\ ReleaseBranch \notin git.local \cup git.remote

\* the record of the step of the type is completed
StepCompleted(opType) ==
  \E i \in 1..Len(state.ops) :
    state.ops[i].type = opType /\ state.ops[i].status = "completed"

\* the run created the release branch and pushed it, a later step failed and
\* rollback returned nil with no git call of a compensation failing
RolledBackAfterPush ==
  /\ pc = "done"
  /\ state.status = "rolled_back"
  /\ rbErr = NoErr
  /\ ~compFailed
  /\ wctx.createdInSession
  /\ StepCompleted(OperationTypeNames[3])
  /\ StepCompleted(OperationTypeNames[8])

\* C30: when a step fails after the release branch was created in the session
\* and pushed, a rollback that succeeds leaves the release branch neither in
\* the working copy nor on the remote
C30_RollbackDeletesPushedBranch ==
  RolledBackAfterPush =>
    /\ ReleaseBranch \notin git.local
    /\ ReleaseBranch \notin git.remote

\* the compensation named was issued the call in its last invocation
Issued(g, method) == \E i \in 1..Len(g.calls) : g.calls[i][1] = method

\* the step is a compensation of the record of the type that returns nil
Compensated(opType) ==
  /\ pc = "rollback"
  /\ rbQueue # << >>
  /\ Head(rbQueue).type = opType
  /\ rbQueue' = Tail(rbQueue)

\* C31: in the rollback of a run in which Commit Changes completed and a later
\* step failed, the compensation of the commit that returns nil with the
\* release commit the tip of the checked out release branch has issued
\* ResetHard to the parent of the release commit, and where that call
\* answered ok the tip is the parent
C31_RollbackResetsCommit ==
  [][(/\ Compensated(OperationTypeNames[7])
      /\ git.tip = ReleaseCommit
      /\ git.current = ReleaseBranch)
       => /\ \E i \in 1..Len(git'.calls) :
               /\ git'.calls[i][1] = "ResetHard"
               /\ git'.calls[i][2] = ReleaseCommit \o << "~1" >>
          /\ NoCallFailed(git') => git'.tip = ParentCommit]_vars

\* the step is a compensation that returns nil
CompensationReturnsNil ==
  /\ pc = "rollback"
  /\ rbQueue # << >>
  /\ rbQueue' = Tail(rbQueue)

\* C32: a compensation returns nil only when none of the calls it made, the
\* rollback comment aside, was answered with an error: a failed status query,
\* checkout, restore, delete, reset or close makes it return an error, so that
\* rollback fails once the retries are used up
C32_NoFailureSwallowed ==
  [][CompensationReturnsNil
       => \A i \in 1..Len(git'.calls) :
            git'.calls[i][3] = "error" => git'.calls[i][1] = "AddComment"]_vars

\* the calls of the adapters that change the working copy, the remote or the
\* pull request
MutatingCalls ==
  {"CheckoutBranch", "DeleteBranch", "DeleteRemoteBranch", "RestoreFile",
   "ResetHard", "AddComment", "ClosePR"}

\* the step is a compensation invoked in a later call of Rollback, after the
\* invocation of the first call returned nil at its first attempt with every
\* call answered ok
InvokedAgain ==
  /\ pc = "rollback"
  /\ rbQueue # << >>
  /\ calls > 0
  /\ ~compFailed
  /\ git' # git \/ rbQueue' # rbQueue \/ attempt' # attempt \/ pc' # pc

\* C33: a compensation invoked a second time with the same rollback data,
\* after the first invocation succeeded, makes no call that changes anything,
\* and returns nil unless a status query of the second invocation is
\* answered with an error
C33_CompensationIdempotent ==
  [][InvokedAgain
       => /\ \A i \in 1..Len(git'.calls) :
               git'.calls[i][1] \notin MutatingCalls
          /\ (\A i \in 1..Len(git'.calls) : git'.calls[i][3] # "error")
               => rbQueue' = Tail(rbQueue)]_vars

\* the step is an invocation of ClosePullRequest for a record that names a
\* pull request
ClosingPullRequest ==
  /\ pc = "rollback"
  /\ rbQueue # << >>
  /\ Head(rbQueue).type = OperationTypeNames[9]
  /\ ExtractPRNumber(Head(rbQueue).data) # 0
  /\ git'.calls # << >>

\* the names of the calls made, in their order
CallNames(g) == [i \in 1..Len(g.calls) |-> g.calls[i][1]]

\* C34: ClosePullRequest asks for the status of the pull request first; when
\* the query fails it returns that error, when the pull request is closed or
\* not found it returns nil, in both cases after that one call; otherwise it
\* posts the comment, then closes, and returns nil exactly when the close is
\* answered ok or already closed, whatever the answer to the comment
C34_ClosePullRequestOrder ==
  [][ClosingPullRequest
       => LET status == git'.calls[1]
              returnsNil == rbQueue' = Tail(rbQueue)
          IN  /\ status[1] = "GetPRStatus"
              /\ status[3] = "error"
                   => CallNames(git') = << "GetPRStatus" >> /\ ~returnsNil
              /\ status[3] = "not found" \/ (status[3] = "ok" /\ git.pr = "closed")
                   => CallNames(git') = << "GetPRStatus" >> /\ returnsNil
              /\ status[3] = "ok" /\ git.pr # "closed"
                   => /\ CallNames(git') = << "GetPRStatus", "AddComment", "ClosePR" >>
                      /\ returnsNil <=> git'.calls[3][3] \in {"ok", "already closed"}]_vars

\* the pull request was open, the comment could not be posted, the close went
\* through and rollback returned nil
C34_Witness ==
  /\ pc = "done"
  /\ state.status = "rolled_back"
  /\ rbErr = NoErr
  /\ git.pr = "closed"
  /\ Len(git.calls) = 3
  /\ git.calls[2] = << "AddComment", 7, "error" >>
  /\ git.calls[3][1] = "ClosePR"

\* C35: in a rollback run by Execute every compensate function invoked is the
\* one of the step whose record is compensated, and it is handed the rollback
\* data the execute function of that step returned
C35_OwnCompensation ==
  FreshExecute =>
    \A i \in 1..Len(compLog) :
      /\ compLog[i].step = compLog[i].pos
      /\ compLog[i].data = DataOf(steps[compLog[i].pos].name)

\* the records up to k are completed, the one after them is running, failed
\* or pending, and all the later ones are pending
PrefixPattern(ops, k) ==
  /\ \A i \in 1..k : ops[i].status = "completed"
  /\ k < Len(ops) => ops[k + 1].status \in {"running", "failed", "pending"}
  /\ \A i \in (k + 2)..Len(ops) : ops[i].status = "pending"

\* C36: during and after an Execute that began on pending records at most one
\* record is running, and the statuses are a run of completed records, then
\* at most one running or failed record, then pending records only
C36_StepsRunInSequence ==
  FreshExecute =>
    /\ Cardinality({ i \in 1..Len(state.ops) :
                       state.ops[i].status = "running" }) <= 1
    /\ \E k \in 0..Len(state.ops) : PrefixPattern(state.ops, k)

\* the first step completed, the second is running, the third is pending
C36_Witness ==
  /\ FreshExecute
  /\ pc = "exec_try"
  /\ Len(state.ops) = 3
  /\ state.ops[1].status = "completed"
  /\ state.ops[2].status = "running"
  /\ state.ops[3].status = "pending"

\* the one save the Execute call made so far is the initial save, and it
\* failed
InitialSaveFailed ==
  /\ enableRollback
  /\ saveFailed
  /\ Len(saveLog) = 1
  /\ saveLog[1].at = "initial"

\* C37: with rollback enabled, an Execute on pending records whose save before
\* the first step fails has returned the error of that save, has invoked no
\* execute function, and has left the workflow and every record pending and
\* nothing persisted
C37_InitialSaveFailureStops ==
  (FreshExecute /\ InitialSaveFailed) =>
    /\ pc = "idle"
    /\ result.kind = "failed to save initial state"
    /\ result.cause = SaveErr
    /\ execLog = << >>
    /\ state.status = "pending"
    /\ \A i \in 1..Len(state.ops) : state.ops[i].status = "pending"
    /\ ~persisted.saved

\* Execute returned after its initial save failed with three steps registered
C37_Witness ==
  /\ ExecuteReturned
  /\ fresh
  /\ InitialSaveFailed
  /\ Len(steps) = 3
  /\ result = ErrInitialSave(SaveErr)

\* the statuses of the records, in order
RecordStatuses(st) == [i \in 1..Len(st.ops) |-> st.ops[i].status]

\* C38: with rollback enabled and no save failing, when Execute has returned
\* the state saved last has the workflow status and the record statuses of
\* the state in memory
C38_SavedStateCurrentOnReturn ==
  (ExecuteReturned /\ enableRollback /\ ~saveFailed) =>
    /\ persisted.saved
    /\ persisted.state.status = state.status
    /\ RecordStatuses(persisted.state) = RecordStatuses(state)

\* Execute returned after step 3 failed and a compensation failed too, with
\* every save succeeding
C38_Witness ==
  /\ ExecuteReturned
  /\ enableRollback
  /\ ~saveFailed
  /\ RetriesExhausted
  /\ compFailed
  /\ rbErr # NoErr
  /\ RecordStatuses(state) = << "completed", "completed", "failed" >>
  /\ persisted.state.status = "failed"

\* the step is a Save that returns an error, for a session whose state file
\* is there
SaveFails ==
  /\ caller' = "Save"
  /\ result' # NoErr
  /\ storeLog'.failed
  /\ GetStateFilename(state.session_id) \in DOMAIN fs

\* C39: a Save that returns an error leaves the state file of the session as
\* it was, so that a Load reads from it what it read before
C39_FailedSaveKeepsFile ==
  [][SaveFails
       => /\ GetStateFilename(state.session_id) \in DOMAIN fs'
          /\ fs'[GetStateFilename(state.session_id)] =
               fs[GetStateFilename(state.session_id)]
          /\ ReadState(fs', state.session_id) =
               ReadState(fs, state.session_id)]_vars

\* every process but p is outside a call of the repository
OthersReturned(p) == \A q \in Procs \ {p} : proc[q].pc = "idle"

\* a process outside a call holds no lock and has no lock file open
ReturnedHoldsNothing ==
  \A p \in Procs :
    proc[p].pc = "idle" => (proc[p].held = "none" /\ proc[p].fd = 0)

\* a TryLock made while every other process is outside a call is granted
GrantedAfterReturn ==
  \A p \in Procs :
    (proc[p].pc = "opened" /\ proc'[p].pc # "opened" /\ OthersReturned(p))
      => (proc'[p].pc = "locked" /\ proc'[p].got /\ proc'[p].held # "none")

====
